---- MODULE Spec2Model ----
(***************************************************************************)
(* serpent-web: the generic SQL repository (BaseSqlRepository), its        *)
(* pagination arithmetic and its query builder, over an abstract SQLAlchemy *)
(* session; the manager over it; and the token verifier (token_util) with   *)
(* its cache of JWKS key sets; the cache of managed-identity tokens; and    *)
(* the session-scoping wrappers (db_dependency, async_db_dependency).      *)
(*                                                                          *)
(* Python's None is the empty set and a present value x is {x}, so that an  *)
(* Optional[int] is compared without mixing types.                          *)
(***************************************************************************)
EXTENDS Integers, Sequences, FiniteSets, TLC

VARIABLES
    committed,   \* rows of the record type that are durable in storage
    txn,         \* rows as the session's open transaction sees them (flushed writes included)
    pendingDel,  \* ids the session has marked deleted and not flushed yet
    related,     \* rows of the related record type (the target of the relationship)
    now,         \* the reading of the UTC clock
    cache,       \* the process-wide cache of JWKS key sets, by URL
    timer,       \* the reading of the caches' timer, in seconds
    identity_cache, \* the process-wide cache of managed-identity access tokens, by scope
    unit,        \* the unit of work of the session-scoping wrapper, or NoUnit
    threads,     \* where each thread calling a cached function is in it, or NoThreads
    res          \* the call that has returned last and its outcome, or Idle

vars == <<committed, txn, pendingDel, related, now, cache, timer, identity_cache, unit, threads, res>>

\* ------------------------------------------------------------------ bounds

MaxPagTotal == 25
MaxPagSkip == 21
MaxPagLimit == 10

\* ------------------------------------------------------------------ Python values

None == {}
Some(x) == {x}
Val(o) == CHOOSE x \in o : TRUE
Opt(S) == {None} \cup {Some(x) : x \in S}

Max(a, b) == IF a >= b THEN a ELSE b
Min(a, b) == IF a <= b THEN a ELSE b

\* Python's a // b for b > 0: rounds toward minus infinity.
FloorDiv(a, b) == a \div b

Idle == [op |-> "idle"]
NoUnit == [stage |-> "none"]
NoThreads == <<>>

\* ------------------------------------------------------------------ pagination arithmetic

\* A plausible slip: the page of the current offset instead of the next one.
calculate_pagination_next_off_by_one(total, skip, limit) ==
    IF limit = None
    THEN [error |-> "none", next |-> None, previous |-> None]
    ELSE LET s == IF skip = None THEN 0 ELSE Val(skip)
             l == Val(limit)
         IN  IF l = 0 /\ (s + l < total \/ s > 0)
             THEN [error |-> "ZeroDivisionError", next |-> None, previous |-> None]
             ELSE [error    |-> "none",
                   next     |-> IF s + l < total THEN Some(FloorDiv(s, l) + 1) ELSE None,
                   previous |-> IF s # 0 /\ s > 0
                                THEN Some(Max(FloorDiv(s - l, l) + 1, 1)) ELSE None]

\* A plausible slip: the clamp to page 1 is forgotten.
calculate_pagination_previous_unclamped(total, skip, limit) ==
    IF limit = None
    THEN [error |-> "none", next |-> None, previous |-> None]
    ELSE LET s == IF skip = None THEN 0 ELSE Val(skip)
             l == Val(limit)
         IN  IF l = 0 /\ (s + l < total \/ s > 0)
             THEN [error |-> "ZeroDivisionError", next |-> None, previous |-> None]
             ELSE [error    |-> "none",
                   next     |-> IF s + l < total THEN Some(FloorDiv(s + l, l) + 1) ELSE None,
                   previous |-> IF s # 0 /\ s > 0
                                THEN Some(FloorDiv(s - l, l) + 1) ELSE None]

\* BaseSqlRepository._calculate_pagination: (next_page, previous_page), or the
\* ZeroDivisionError that `// limit` raises when limit is 0 and a branch that
\* divides is taken (next when skip + limit < total, previous when skip > 0).
_calculate_pagination(total, skip, limit) ==
    IF limit = None
    THEN [error |-> "none", next |-> None, previous |-> None]
    ELSE LET s == IF skip = None THEN 0 ELSE Val(skip)
             l == Val(limit)
             nextDivides == s + l < total
             prevDivides == s # 0 /\ s > 0
         IN  IF l = 0 /\ (nextDivides \/ prevDivides)
             THEN [error |-> "ZeroDivisionError", next |-> None, previous |-> None]
             ELSE [error    |-> "none",
                   next     |-> IF nextDivides THEN Some(FloorDiv(s + l, l) + 1) ELSE None,
                   previous |-> IF prevDivides
                                THEN Some(Max(FloorDiv(s - l, l) + 1, 1)) ELSE None]

\* ------------------------------------------------------------------ the record types

MaxId == 2
MaxItem == 2

Ids == 1..MaxId
ItemIds == 1..MaxItem

\* Text is a sequence of characters.
NameVals == {<<"a", "b">>, <<"B">>}

\* The mapped classes: a concrete record type (BaseSqlModel gives it id, created_on
\* and updated_on) with a text column, an integer column and a one-to-many
\* relationship to a second record type.
Schema ==
    [Order |-> [id         |-> [kind |-> "column", type |-> "Uuid"],
                created_on |-> [kind |-> "column", type |-> "TIMESTAMP"],
                updated_on |-> [kind |-> "column", type |-> "TIMESTAMP"],
                name       |-> [kind |-> "column", type |-> "String"],
                qty        |-> [kind |-> "column", type |-> "Integer"],
                items      |-> [kind |-> "relationship", target |-> "Item"]],
     Item  |-> [id         |-> [kind |-> "column", type |-> "Uuid"],
                owner_id   |-> [kind |-> "column", type |-> "Uuid"],
                title      |-> [kind |-> "column", type |-> "Text"]]]

\* self.model of the repository
Model == "Order"

\* hasattr(model, name) and getattr(model, name)
HasAttr(model, name) == name \in DOMAIN Schema[model]
GetAttr(model, name) == Schema[model][name] @@ [model |-> model, name |-> name]


\* ------------------------------------------------------------------ text

Lower(c) == CASE c = "A" -> "a" [] c = "B" -> "b" [] OTHER -> c

\* SQL's value ILIKE pattern: % matches any run of characters, _ any one
\* character, any other character itself without regard to case.
RECURSIVE ILike(_, _)
ILike(value, pattern) ==
    IF pattern = <<>> THEN value = <<>>
    ELSE IF Head(pattern) = "%"
         THEN ILike(value, Tail(pattern)) \/ (value # <<>> /\ ILike(Tail(value), pattern))
         ELSE /\ value # <<>>
              /\ Head(pattern) = "_" \/ Lower(Head(pattern)) = Lower(Head(value))
              /\ ILike(Tail(value), Tail(pattern))

\* str.split('.') on a field name given as its tokens: attribute names and dots.
RECURSIVE SplitDot(_)
SplitDot(field_name) ==
    IF field_name = <<>> THEN << <<>> >>
    ELSE LET rest == SplitDot(Tail(field_name))
         IN  IF Head(field_name) = "."
             THEN << <<>> >> \o rest
             ELSE << <<Head(field_name)>> \o Head(rest) >> \o Tail(rest)

\* A part of a split field name names an attribute when it is that one token.
PartHasAttr(model, part) == Len(part) = 1 /\ HasAttr(model, part[1])

\* ------------------------------------------------------------------ field-path resolution

RECURSIVE WalkParts(_, _, _, _)
WalkParts(parts, current_model, joins, column) ==
    IF parts = <<>>
    THEN IF column = None
         THEN [error |-> "AttributeError", column |-> None, joins |-> <<>>]
         ELSE [error |-> "none", column |-> column, joins |-> joins]
    ELSE IF PartHasAttr(current_model, Head(parts))
         THEN LET attr == GetAttr(current_model, Head(parts)[1])
              IN  IF attr.kind = "relationship"
                  THEN WalkParts(Tail(parts), attr.target, Append(joins, attr), column)
                  ELSE WalkParts(Tail(parts), current_model, joins, Some(attr))
         ELSE [error |-> "AttributeError", column |-> None, joins |-> <<>>]

\* BaseSqlRepository._get_column_and_joins
_get_column_and_joins(model, field_name) ==
    WalkParts(SplitDot(field_name), model, <<>>, None)

\* ------------------------------------------------------------------ the query builder

EmptyDict == <<>>

\* query_filter or {}
FilterOrEmpty(query_filter) == IF query_filter = None THEN EmptyDict ELSE Val(query_filter)

\* A plausible slip: the filter loop adds no condition.
FilterClausesDropped(query_filter) == {}

\* The filter loop of get, get_async and _build_base_paginated_get_stmt: an equality
\* per key the model has as an attribute; a key it has not is passed over.
FilterClauses(query_filter) ==
    LET f == FilterOrEmpty(query_filter)
    IN  {<<k, f[k]>> : k \in {k \in DOMAIN f : HasAttr(Model, k)}}

\* for join in joins: if join not in joins_applied: stmt = stmt.join(join); joins_applied.add(join)
RECURSIVE ApplyJoins(_, _, _)
ApplyJoins(joins, joins_applied, stmt_joins) ==
    IF joins = <<>>
    THEN [applied |-> joins_applied, stmt_joins |-> stmt_joins]
    ELSE IF Head(joins) \in joins_applied
         THEN ApplyJoins(Tail(joins), joins_applied, stmt_joins)
         ELSE ApplyJoins(Tail(joins), joins_applied \cup {Head(joins)},
                         Append(stmt_joins, Head(joins)))

BuildError(e) == [error |-> e, stmt |-> None]

\* A plausible slip: a field that is not text is passed over, as an unknown filter key is.
RECURSIVE SearchLoopSkipsNonText(_, _, _, _)
SearchLoopSkipsNonText(search_fields, search_conditions, joins_applied, stmt_joins) ==
    IF search_fields = <<>>
    THEN [error |-> "none", conditions |-> search_conditions, stmt_joins |-> stmt_joins]
    ELSE LET r == _get_column_and_joins(Model, Head(search_fields))
         IN  IF r.error # "none"
             THEN [error |-> r.error, conditions |-> <<>>, stmt_joins |-> <<>>]
             ELSE IF Val(r.column).type \notin {"String", "Text"}
                  THEN SearchLoopSkipsNonText(Tail(search_fields), search_conditions,
                                              joins_applied, stmt_joins)
                  ELSE LET j == ApplyJoins(r.joins, joins_applied, stmt_joins)
                       IN  SearchLoopSkipsNonText(Tail(search_fields),
                                                  Append(search_conditions, Val(r.column)),
                                                  j.applied, j.stmt_joins)

\* The loop over search_fields.
RECURSIVE SearchLoop(_, _, _, _)
SearchLoop(search_fields, search_conditions, joins_applied, stmt_joins) ==
    IF search_fields = <<>>
    THEN [error |-> "none", conditions |-> search_conditions, stmt_joins |-> stmt_joins]
    ELSE LET r == _get_column_and_joins(Model, Head(search_fields))
         IN  IF r.error # "none"
             THEN [error |-> r.error, conditions |-> <<>>, stmt_joins |-> <<>>]
             ELSE IF Val(r.column).type \notin {"String", "Text"}
                  THEN [error |-> "TypeError", conditions |-> <<>>, stmt_joins |-> <<>>]
                  ELSE LET j == ApplyJoins(r.joins, joins_applied, stmt_joins)
                       IN  SearchLoop(Tail(search_fields),
                                      Append(search_conditions, Val(r.column)),
                                      j.applied, j.stmt_joins)

\* The loop over order_by.
RECURSIVE OrderLoop(_, _, _, _)
OrderLoop(order_by, order_criteria, joins_applied, stmt_joins) ==
    IF order_by = <<>>
    THEN [error |-> "none", criteria |-> order_criteria, stmt_joins |-> stmt_joins]
    ELSE LET field0     == Head(order_by)
             descending == field0 # <<>> /\ Head(field0) = "-"
             field      == IF descending THEN Tail(field0) ELSE field0
             r          == _get_column_and_joins(Model, field)
         IN  IF r.error # "none"
             THEN [error |-> r.error, criteria |-> <<>>, stmt_joins |-> <<>>]
             ELSE LET j == ApplyJoins(r.joins, joins_applied, stmt_joins)
                  IN  OrderLoop(Tail(order_by),
                                Append(order_criteria,
                                       [column |-> Val(r.column), descending |-> descending]),
                                j.applied, j.stmt_joins)

\* BaseSqlRepository._build_base_paginated_get_stmt: the statement, or the error raised
\* while it is built. joins_applied starts empty once for the search and once more for
\* the ordering.
_build_base_paginated_get_stmt(query_filter, order_by, search_fields, search_text) ==
    LET filters   == FilterClauses(query_filter)
        searching == /\ search_text # None /\ Val(search_text) # <<>>
                     /\ search_fields # None /\ Val(search_fields) # <<>>
        s == IF searching
             THEN SearchLoop(Val(search_fields), <<>>, {}, <<>>)
             ELSE [error |-> "none", conditions |-> <<>>, stmt_joins |-> <<>>]
        ordering == order_by # None /\ Val(order_by) # <<>>
        o == IF s.error # "none" THEN s
             ELSE IF ordering
                  THEN OrderLoop(Val(order_by), <<>>, {}, s.stmt_joins)
                  ELSE [error |-> "none", criteria |-> <<>>, stmt_joins |-> s.stmt_joins]
    IN  IF s.error # "none" THEN BuildError(s.error)
        ELSE IF o.error # "none" THEN BuildError(o.error)
        ELSE [error |-> "none",
              stmt  |-> Some([filters |-> filters,
                              search  |-> s.conditions,
                              text    |-> IF searching THEN Val(search_text) ELSE <<>>,
                              joins   |-> o.stmt_joins,
                              order   |-> o.criteria])]

\* ------------------------------------------------------------------ query execution

HasDuplicates(seq) == \E i, j \in DOMAIN seq : i < j /\ seq[i] = seq[j]

\* FROM model [JOIN related ON related.owner_id = model.id]: an inner join, one row
\* per pair. Reads go through the session's transaction.
JoinedRows(stmt_joins) ==
    IF stmt_joins = <<>>
    THEN {[rec |-> r, item |-> None] : r \in txn}
    ELSE {[rec |-> p[1], item |-> Some(p[2])] :
             p \in {q \in txn \X related : q[2].owner_id = q[1].id}}

ColumnValue(row, column) ==
    IF column.model = Model THEN row.rec[column.name] ELSE Val(row.item)[column.name]

\* WHERE: every filter equality, and, when searching, one of the ILIKE conditions.
Where(stmt, row) ==
    /\ \A f \in stmt.filters : row.rec[f[1]] = f[2]
    /\ \/ stmt.search = <<>>
       \/ \E i \in DOMAIN stmt.search :
            ILike(ColumnValue(row, stmt.search[i]), <<"%">> \o stmt.text \o <<"%">>)

MatchingRows(stmt) == {row \in JoinedRows(stmt.joins) : Where(stmt, row)}

\* The collation of the characters in use.
CharRank(c) ==
    CASE c = "%" -> 0 [] c = "A" -> 1 [] c = "B" -> 2 [] c = "_" -> 3
      [] c = "a" -> 4 [] c = "b" -> 5 [] OTHER -> 6

RECURSIVE TextLess(_, _)
TextLess(a, b) ==
    IF b = <<>> THEN FALSE
    ELSE IF a = <<>> THEN TRUE
    ELSE IF Head(a) = Head(b) THEN TextLess(Tail(a), Tail(b))
    ELSE CharRank(Head(a)) < CharRank(Head(b))

ValueLess(type, a, b) == IF type \in {"String", "Text"} THEN TextLess(a, b) ELSE a < b

\* row1 sorts strictly before row2 under ORDER BY criteria.
RECURSIVE SortsBefore(_, _, _)
SortsBefore(row1, row2, criteria) ==
    IF criteria = <<>> THEN FALSE
    ELSE LET c  == Head(criteria)
             v1 == ColumnValue(row1, c.column)
             v2 == ColumnValue(row2, c.column)
         IN  IF v1 = v2 THEN SortsBefore(row1, row2, Tail(criteria))
             ELSE IF c.descending THEN ValueLess(c.column.type, v2, v1)
                  ELSE ValueLess(c.column.type, v1, v2)

\* The orders storage may return the rows in: any order that respects ORDER BY.
RowOrders(rows, criteria) ==
    LET n == Cardinality(rows)
    IN  {f \in [1..n -> rows] :
            /\ \A i, j \in 1..n : i # j => f[i] # f[j]
            /\ \A i, j \in 1..n : i < j => ~SortsBefore(f[j], f[i], criteria)}

\* OFFSET skip LIMIT limit; either may be left out.
OffsetLimit(seq, skip, limit) ==
    LET s    == IF skip = None THEN 0 ELSE Val(skip)
        last == IF limit = None THEN Len(seq) ELSE Min(Len(seq), s + Val(limit))
    IN  SubSeq(seq, s + 1, last)

\* result.unique().scalars().all(): the entities, each kept where it comes first.
RECURSIVE UniqueScalars(_, _)
UniqueScalars(rows, seen) ==
    IF rows = <<>> THEN <<>>
    ELSE IF Head(rows).rec \in seen THEN UniqueScalars(Tail(rows), seen)
         ELSE <<Head(rows).rec>> \o UniqueScalars(Tail(rows), seen \cup {Head(rows).rec})

\* query.all() / list(result.scalars()): the entity of every row.
Scalars(rows) == [i \in DOMAIN rows |-> rows[i].rec]

\* ------------------------------------------------------------------ read operations
\* Each operation is the set of outcomes it can have in the current state: what it
\* returns or raises, and the session calls it has made. Storage decides the order
\* of rows that no ORDER BY fixes, so a read may have several outcomes.

Raised(e, calls) == [error |-> e, calls |-> calls]

\* The statement cannot run: the same relationship is joined into it twice, and the
\* back end refuses a table that appears twice under one name.
ExecuteFails(stmt) == HasDuplicates(stmt.joins)

\* A plausible slip: an unknown key is passed over, as the filter loops do.
exists_ignoring_unknown_keys(query_filter) ==
    IF query_filter.kind # "dict"
    THEN Raised("TypeError", <<>>)
    ELSE LET f == query_filter.val
         IN  [error |-> "none", calls |-> <<"execute">>,
              ret   |-> \E r \in txn : \A k \in {k \in DOMAIN f : HasAttr(Model, k)} : r[k] = f[k]]

\* BaseSqlRepository.exists: filter_by(**query_filter) needs a mapping (TypeError
\* otherwise) whose keys are all attributes of the model (InvalidRequestError otherwise).
exists(query_filter) ==
    IF query_filter.kind # "dict"
    THEN Raised("TypeError", <<>>)
    ELSE LET f == query_filter.val
         IN  IF \E k \in DOMAIN f : ~HasAttr(Model, k)
             THEN Raised("InvalidRequestError", <<>>)
             ELSE [error |-> "none", calls |-> <<"execute">>,
                   ret   |-> \E r \in txn : \A k \in DOMAIN f : r[k] = f[k]]

\* BaseSqlRepository.exists_async
exists_async(query_filter) ==
    IF query_filter.kind # "dict"
    THEN Raised("TypeError", <<>>)
    ELSE LET f == query_filter.val
         IN  IF \E k \in DOMAIN f : ~HasAttr(Model, k)
             THEN Raised("InvalidRequestError", <<>>)
             ELSE [error |-> "none", calls |-> <<"execute">>,
                   ret   |-> \E r \in txn : \A k \in DOMAIN f : r[k] = f[k]]

\* BaseSqlRepository.get_by_id: the record, or None.
get_by_id(id) ==
    [error |-> "none", calls |-> <<"get">>, ret |-> {r \in txn : r.id = id}]

\* BaseSqlRepository.get_by_id_async
get_by_id_async(id) ==
    [error |-> "none", calls |-> <<"get">>, ret |-> {r \in txn : r.id = id}]

\* BaseSqlRepository.get_models_by_ids
get_models_by_ids(ids) ==
    {[error |-> "none", calls |-> <<"execute">>, data |-> ord] :
        ord \in RowOrders({r \in txn : r.id \in ids}, <<>>)}

\* BaseSqlRepository.get_models_by_ids_async
get_models_by_ids_async(ids) ==
    {[error |-> "none", calls |-> <<"execute">>, data |-> ord] :
        ord \in RowOrders({r \in txn : r.id \in ids}, <<>>)}

\* BaseSqlRepository.get
get(query_filter, skip, limit) ==
    LET stmt == [filters |-> FilterClauses(query_filter), search |-> <<>>,
                 text |-> <<>>, joins |-> <<>>, order |-> <<>>]
    IN  {[error |-> "none", calls |-> <<"execute">>,
          data  |-> Scalars(OffsetLimit(ord, skip, limit))] :
            ord \in RowOrders(MatchingRows(stmt), <<>>)}

\* BaseSqlRepository.get_async
get_async(query_filter, skip, limit) ==
    LET stmt == [filters |-> FilterClauses(query_filter), search |-> <<>>,
                 text |-> <<>>, joins |-> <<>>, order |-> <<>>]
    IN  {[error |-> "none", calls |-> <<"execute">>,
          data  |-> Scalars(OffsetLimit(ord, skip, limit))] :
            ord \in RowOrders(MatchingRows(stmt), <<>>)}

\* PaginatedList(total, skip, limit, data, next, previous) of one row order.
PaginatedList(total, skip, limit, ord, page) ==
    [error    |-> "none",
     calls    |-> <<"execute", "execute">>,
     total    |-> total,
     skip     |-> IF skip # None THEN Val(skip) ELSE 0,
     limit    |-> IF limit # None THEN Val(limit) ELSE total,
     data     |-> UniqueScalars(OffsetLimit(ord, skip, limit), {}),
     next     |-> page.next,
     previous |-> page.previous]

\* A plausible slip: the page is not limited.
get_paginated_without_limit(query_filter, skip, limit, order_by, search_fields, search_text) ==
    LET b == _build_base_paginated_get_stmt(query_filter, order_by, search_fields, search_text)
    IN  IF b.error # "none" THEN {Raised(b.error, <<>>)}
        ELSE LET stmt == Val(b.stmt)
             IN  IF ExecuteFails(stmt) THEN {Raised("DatabaseError", <<"execute">>)}
                 ELSE LET total == Cardinality(MatchingRows(stmt))
                          page  == _calculate_pagination(total, skip, limit)
                      IN  IF page.error # "none"
                          THEN {Raised(page.error, <<"execute", "execute">>)}
                          ELSE {[PaginatedList(total, skip, limit, ord, page)
                                    EXCEPT !.data = UniqueScalars(OffsetLimit(ord, skip, None), {})] :
                                   ord \in RowOrders(MatchingRows(stmt), stmt.order)}

\* A plausible slip: the limit is reported as given, 0 when pagination is off.
get_paginated_limit_not_total(query_filter, skip, limit, order_by, search_fields, search_text) ==
    LET b == _build_base_paginated_get_stmt(query_filter, order_by, search_fields, search_text)
    IN  IF b.error # "none" THEN {Raised(b.error, <<>>)}
        ELSE LET stmt == Val(b.stmt)
             IN  IF ExecuteFails(stmt) THEN {Raised("DatabaseError", <<"execute">>)}
                 ELSE LET total == Cardinality(MatchingRows(stmt))
                          page  == _calculate_pagination(total, skip, limit)
                      IN  IF page.error # "none"
                          THEN {Raised(page.error, <<"execute", "execute">>)}
                          ELSE {[PaginatedList(total, skip, limit, ord, page)
                                    EXCEPT !.limit = IF limit # None THEN Val(limit) ELSE 0] :
                                   ord \in RowOrders(MatchingRows(stmt), stmt.order)}

\* BaseSqlRepository.get_paginated: the statement is built, counted (the same FROM
\* and WHERE under count(*), ordering removed), run with OFFSET and LIMIT, and the
\* page numbers are computed last.
get_paginated(query_filter, skip, limit, order_by, search_fields, search_text) ==
    LET b == _build_base_paginated_get_stmt(query_filter, order_by, search_fields, search_text)
    IN  IF b.error # "none" THEN {Raised(b.error, <<>>)}
        ELSE LET stmt == Val(b.stmt)
             IN  IF ExecuteFails(stmt) THEN {Raised("DatabaseError", <<"execute">>)}
                 ELSE LET total == Cardinality(MatchingRows(stmt))
                          page  == _calculate_pagination(total, skip, limit)
                      IN  IF page.error # "none"
                          THEN {Raised(page.error, <<"execute", "execute">>)}
                          ELSE {PaginatedList(total, skip, limit, ord, page) :
                                   ord \in RowOrders(MatchingRows(stmt), stmt.order)}

\* BaseSqlRepository.get_paginated_async
get_paginated_async(query_filter, skip, limit, order_by, search_fields, search_text) ==
    LET b == _build_base_paginated_get_stmt(query_filter, order_by, search_fields, search_text)
    IN  IF b.error # "none" THEN {Raised(b.error, <<>>)}
        ELSE LET stmt == Val(b.stmt)
             IN  IF ExecuteFails(stmt) THEN {Raised("DatabaseError", <<"execute">>)}
                 ELSE LET total == Cardinality(MatchingRows(stmt))
                          page  == _calculate_pagination(total, skip, limit)
                      IN  IF page.error # "none"
                          THEN {Raised(page.error, <<"execute", "execute">>)}
                          ELSE {PaginatedList(total, skip, limit, ord, page) :
                                   ord \in RowOrders(MatchingRows(stmt), stmt.order)}

\* ------------------------------------------------------------------ the session
\* The session the repository is given is made with autoflush off (sql_context.py):
\* a delete stays pending until a flush or a commit, and reads do not flush.

MaxClock == 2

Ids_of(rows) == {r.id : r \in rows}

\* session.flush() after session.add(model): the pending deletes go out first, then
\* the added record is written over the row of its id.
Flushed(rows, deleted, model) ==
    {r \in rows : r.id \notin deleted /\ r.id # model.id} \cup {model}

\* session.flush() / the flush inside session.commit() with nothing added.
FlushedDeletes(rows, deleted) == {r \in rows : r.id \notin deleted}

\* An outcome that leaves the session and storage as they are.
NoWrite(o) ==
    o @@ [txn |-> txn, committed |-> committed, pendingDel |-> pendingDel, now |-> now]

\* self._db.add(model) followed by _handle_defer_commit_single_model(model, defer_commit):
\* flush when the commit is deferred, commit and refresh otherwise.
AddAndHandleDeferCommit(model, defer_commit) ==
    LET rows == Flushed(txn, pendingDel, model)
    IN  IF defer_commit
        THEN [error |-> "none", calls |-> <<"add", "flush">>, ret |-> model,
              txn |-> rows, committed |-> committed, pendingDel |-> {}, now |-> now]
        ELSE [error |-> "none", calls |-> <<"add", "commit", "refresh">>,
              ret |-> CHOOSE r \in rows : r.id = model.id,
              txn |-> rows, committed |-> rows, pendingDel |-> {}, now |-> now]

\* The id the column default gives a record created without one: any id not in use.
FreshIds == Ids \ (Ids_of(txn) \cup Ids_of(committed))

WithId(model, id) == [id |-> id, name |-> model.name, qty |-> model.qty]

\* utc_now_time_aware(): the reading of the clock.
utc_now_time_aware == now

\* The readings a later call of utc_now_time_aware() in the same flush may give: the
\* clock does not stand still between two calls.
LaterReadings(t) == t..MaxClock

\* The row the INSERT of a flush writes: created_on and updated_on have a default of
\* their own each, both utc_now_time_aware, called one after the other.
Inserted(model, id, created_on, updated_on) ==
    WithId(model, id) @@ [created_on |-> created_on, updated_on |-> updated_on]

\* The row the UPDATE of a flush writes for a record that is stored as `stored`:
\* nothing when no column has changed; otherwise the changed columns, and updated_on
\* from the before_update listener.
Updated(model, stored, updated_on) ==
    IF model.name = stored.name /\ model.qty = stored.qty
    THEN stored
    ELSE [stored EXCEPT !.name = model.name, !.qty = model.qty, !.updated_on = updated_on]

\* A plausible slip: the commit is made whether or not it is deferred.
create_always_commits(model, defer_commit) ==
    {[AddAndHandleDeferCommit(Inserted(model, id, utc_now_time_aware, t), FALSE)
         EXCEPT !.now = t] :
        id \in (IF model.id = None THEN FreshIds ELSE {Val(model.id)}),
        t \in LaterReadings(utc_now_time_aware)}

\* BaseSqlRepository.create
create(model, defer_commit) ==
    {[AddAndHandleDeferCommit(Inserted(model, id, utc_now_time_aware, t), defer_commit)
         EXCEPT !.now = t] :
        id \in (IF model.id = None THEN FreshIds ELSE {Val(model.id)}),
        t \in LaterReadings(utc_now_time_aware)}

\* BaseSqlRepository.create_async
create_async(model, defer_commit) ==
    {[AddAndHandleDeferCommit(Inserted(model, id, utc_now_time_aware, t), defer_commit)
         EXCEPT !.now = t] :
        id \in (IF model.id = None THEN FreshIds ELSE {Val(model.id)}),
        t \in LaterReadings(utc_now_time_aware)}

RaisedValueError(detail) == [error |-> "ValueError", detail |-> detail, calls |-> <<>>]

\* BaseSqlRepository.update: the existence check is exists(model.id), the id itself
\* where exists takes a filter mapping.
update(model, defer_commit) ==
    IF model.id = None
    THEN {NoWrite(RaisedValueError("id is required"))}
    ELSE LET found == exists([kind |-> "id", val |-> Val(model.id)])
         IN  IF found.error # "none" THEN {NoWrite(found)}
             ELSE IF found.ret
                  THEN LET stored == CHOOSE r \in txn : r.id = Val(model.id)
                           o == AddAndHandleDeferCommit(
                                    Updated(model, stored, utc_now_time_aware), defer_commit)
                       IN  {[o EXCEPT !.calls = found.calls \o o.calls]}
                  ELSE {NoWrite([RaisedValueError("not found") EXCEPT !.calls = found.calls])}

\* BaseSqlRepository.update_async: the existence check is exists_async({"id": model.id}).
update_async(model, defer_commit) ==
    IF model.id = None
    THEN {NoWrite(RaisedValueError("id is required"))}
    ELSE LET found == exists_async([kind |-> "dict", val |-> ("id" :> Val(model.id))])
         IN  IF found.error # "none" THEN {NoWrite(found)}
             ELSE IF found.ret
                  THEN LET stored == CHOOSE r \in txn : r.id = Val(model.id)
                           o == AddAndHandleDeferCommit(
                                    Updated(model, stored, utc_now_time_aware), defer_commit)
                       IN  {[o EXCEPT !.calls = found.calls \o o.calls]}
                  ELSE {NoWrite([RaisedValueError("not found") EXCEPT !.calls = found.calls])}

\* A plausible slip: the record found is not handed to session.delete.
delete_without_marking(id, defer_commit) ==
    LET calls == <<"get">>
    IN  IF defer_commit
        THEN {[error |-> "none", calls |-> calls, ret |-> None,
               txn |-> txn, committed |-> committed, pendingDel |-> pendingDel, now |-> now]}
        ELSE {[error |-> "none", calls |-> Append(calls, "commit"), ret |-> None,
               txn |-> FlushedDeletes(txn, pendingDel),
               committed |-> FlushedDeletes(txn, pendingDel), pendingDel |-> {}, now |-> now]}

\* BaseSqlRepository.delete
delete(id, defer_commit) ==
    LET present  == \E r \in txn : r.id = id
        deleted  == IF present THEN pendingDel \cup {id} ELSE pendingDel
        calls    == <<"get">> \o (IF present THEN <<"delete">> ELSE <<>>)
    IN  IF defer_commit
        THEN {[error |-> "none", calls |-> calls, ret |-> None,
               txn |-> txn, committed |-> committed, pendingDel |-> deleted, now |-> now]}
        ELSE {[error |-> "none", calls |-> Append(calls, "commit"), ret |-> None,
               txn |-> FlushedDeletes(txn, deleted),
               committed |-> FlushedDeletes(txn, deleted), pendingDel |-> {}, now |-> now]}

\* A plausible slip: the commit is made only when a record was found.
delete_async_commits_when_found(id, defer_commit) ==
    LET present  == \E r \in txn : r.id = id
        deleted  == IF present THEN pendingDel \cup {id} ELSE pendingDel
        calls    == <<"get">> \o (IF present THEN <<"delete">> ELSE <<>>)
    IN  IF defer_commit \/ ~present
        THEN {[error |-> "none", calls |-> calls, ret |-> None,
               txn |-> txn, committed |-> committed, pendingDel |-> deleted, now |-> now]}
        ELSE {[error |-> "none", calls |-> Append(calls, "commit"), ret |-> None,
               txn |-> FlushedDeletes(txn, deleted),
               committed |-> FlushedDeletes(txn, deleted), pendingDel |-> {}, now |-> now]}

\* BaseSqlRepository.delete_async
delete_async(id, defer_commit) ==
    LET present  == \E r \in txn : r.id = id
        deleted  == IF present THEN pendingDel \cup {id} ELSE pendingDel
        calls    == <<"get">> \o (IF present THEN <<"delete">> ELSE <<>>)
    IN  IF defer_commit
        THEN {[error |-> "none", calls |-> calls, ret |-> None,
               txn |-> txn, committed |-> committed, pendingDel |-> deleted, now |-> now]}
        ELSE {[error |-> "none", calls |-> Append(calls, "commit"), ret |-> None,
               txn |-> FlushedDeletes(txn, deleted),
               committed |-> FlushedDeletes(txn, deleted), pendingDel |-> {}, now |-> now]}

\* ------------------------------------------------------------------ the manager
\* A call of a BaseManager method: the calls it makes on its repository and the outcome
\* it hands back (the value returned or the error that passes through it).

Delegated(op, mode, args, outcomes) ==
    {[repository |-> <<[op |-> op, mode |-> mode, args |-> args]>>, out |-> o] : o \in outcomes}

BaseManager_get_by_id(id) == Delegated("get_by_id", "sync", <<id>>, {NoWrite(get_by_id(id))})

BaseManager_get_by_id_async(id) ==
    Delegated("get_by_id", "async", <<id>>, {NoWrite(get_by_id_async(id))})

BaseManager_create(model, defer_commit) ==
    Delegated("create", "sync", <<model, defer_commit>>, create(model, defer_commit))

BaseManager_create_async(model, defer_commit) ==
    Delegated("create", "async", <<model, defer_commit>>, create_async(model, defer_commit))

BaseManager_update(model, defer_commit) ==
    Delegated("update", "sync", <<model, defer_commit>>, update(model, defer_commit))

BaseManager_update_async(model, defer_commit) ==
    Delegated("update", "async", <<model, defer_commit>>, update_async(model, defer_commit))

\* delete and delete_async hand back nothing, as the repository's do.
BaseManager_delete(id, defer_commit) ==
    Delegated("delete", "sync", <<id, defer_commit>>, delete(id, defer_commit))

BaseManager_delete_async(id, defer_commit) ==
    Delegated("delete", "async", <<id, defer_commit>>, delete_async(id, defer_commit))

\* A plausible slip: skip and limit are handed on the wrong way round.
BaseManager_get_swapped(query_filter, skip, limit) ==
    Delegated("get", "sync", <<query_filter, limit, skip>>,
              {NoWrite(o) : o \in get(query_filter, limit, skip)})

BaseManager_get(query_filter, skip, limit) ==
    Delegated("get", "sync", <<query_filter, skip, limit>>,
              {NoWrite(o) : o \in get(query_filter, skip, limit)})

BaseManager_get_async(query_filter, skip, limit) ==
    Delegated("get", "async", <<query_filter, skip, limit>>,
              {NoWrite(o) : o \in get_async(query_filter, skip, limit)})

BaseManager_get_models_by_ids(ids) ==
    Delegated("get_models_by_ids", "sync", <<ids>>,
              {NoWrite(o) : o \in get_models_by_ids(ids)})

BaseManager_get_models_by_ids_async(ids) ==
    Delegated("get_models_by_ids", "async", <<ids>>,
              {NoWrite(o) : o \in get_models_by_ids_async(ids)})

BaseManager_get_paginated(query_filter, skip, limit, order_by, search_fields, search_text) ==
    Delegated("get_paginated", "sync",
              <<query_filter, skip, limit, order_by, search_fields, search_text>>,
              {NoWrite(o) : o \in get_paginated(query_filter, skip, limit, order_by,
                                                search_fields, search_text)})

BaseManager_get_paginated_async(query_filter, skip, limit, order_by, search_fields, search_text) ==
    Delegated("get_paginated", "async",
              <<query_filter, skip, limit, order_by, search_fields, search_text>>,
              {NoWrite(o) : o \in get_paginated_async(query_filter, skip, limit, order_by,
                                                      search_fields, search_text)})

\* The methods BaseManager defines; BaseSqlManager adds none.
BaseManagerMethods ==
    {"get_by_id", "create", "update", "delete", "get", "get_models_by_ids", "get_paginated"}

\* manager.<name>(...) for a name BaseManager does not define: the attribute lookup
\* fails and no call is made on the repository.
BaseManager_undefined(name) ==
    IF name \in BaseManagerMethods
    THEN {}
    ELSE {[repository |-> <<>>, out |-> NoWrite(Raised("AttributeError", <<>>))]}

\* ------------------------------------------------------------------ the token verifier

\* raise HTTPException(status_code=..., detail=...)
HTTPException(status_code, detail) ==
    [error |-> "HTTPException", status_code |-> status_code, detail |-> detail]

\* cache = TTLCache(maxsize=100, ttl=600): an entry is there until the timer reaches the
\* time it was stored at plus ttl. Storing drops the entries that have expired. The
\* URLs in use are fewer than maxsize, so no entry is evicted before it expires.
Ttl == 600

Live(c, key) == key \in DOMAIN c /\ timer < c[key].expires

Expire(c) == [k \in {k \in DOMAIN c : timer < c[k].expires} |-> c[k]]

SetItem(c, key, value) == (key :> [value |-> value, expires |-> timer + Ttl]) @@ Expire(c)

Urls == {"u1", "u2"}
Kids == {"k1", "k2"}
Audiences == {"a1", "a2"}

\* What requests.get(jwks_url) and the calls on its response may do: fail on the
\* network, answer with a status that raise_for_status refuses, answer with a body
\* that is no key set, or answer with a key set.
Responses ==
    {[kind |-> "network_error"], [kind |-> "bad_status"], [kind |-> "malformed"]}
        \cup {[kind |-> "ok", kids |-> S] : S \in {{"k1"}, {"k1", "k2"}}}

\* {key["kid"]: key for key in jwks["keys"]}
KeysOf(response) == [k \in response.kids |-> [kid |-> k, kty |-> "RSA"]]

\* A plausible slip: the failure of the request is let through as it is.
get_jwks_keys_reraises(c, jwks_url, response) ==
    IF Live(c, jwks_url)
    THEN [error |-> "none", ret |-> c[jwks_url].value, calls |-> <<>>, cache |-> c]
    ELSE IF response.kind = "ok"
         THEN [error |-> "none", ret |-> KeysOf(response), calls |-> <<"requests.get">>,
               cache |-> SetItem(c, jwks_url, KeysOf(response))]
         ELSE [error |-> "RequestException", calls |-> <<"requests.get">>, cache |-> c]

\* A plausible slip: the function is not cached.
get_jwks_keys_uncached(c, jwks_url, response) ==
    IF response.kind = "ok"
    THEN [error |-> "none", ret |-> KeysOf(response), calls |-> <<"requests.get">>, cache |-> c]
    ELSE HTTPException(500, "Failed to fetch JWKS keys.")
            @@ [calls |-> <<"requests.get">>, cache |-> c]

\* get_jwks_keys under @cached(cache): the entry of the URL when there is a live one;
\* otherwise one request, whose result is stored when the call returns and not when
\* it raises.
get_jwks_keys(c, jwks_url, response) ==
    IF Live(c, jwks_url)
    THEN [error |-> "none", ret |-> c[jwks_url].value, calls |-> <<>>, cache |-> c]
    ELSE IF response.kind = "ok"
         THEN [error |-> "none", ret |-> KeysOf(response), calls |-> <<"requests.get">>,
               cache |-> SetItem(c, jwks_url, KeysOf(response))]
         ELSE HTTPException(500, "Failed to fetch JWKS keys.")
                 @@ [calls |-> <<"requests.get">>, cache |-> c]

\* The tokens: no token, the empty string, a string that is no JWT, the dict that
\* refresh_token returns, and JWTs with or without a key id, for one audience, with a
\* good signature, a bad one, or a good one that has expired.
NoToken == [kind |-> "none"]
EmptyToken == [kind |-> "empty"]
MalformedToken == [kind |-> "malformed"]
RefreshedToken == [kind |-> "dict"]
JwtTokens == [kind : {"jwt"}, kid : Opt(Kids), aud : Audiences,
              state : {"ok", "bad_signature", "expired"}]
Tokens == {NoToken, EmptyToken, MalformedToken} \cup JwtTokens

\* not token
Falsy(token) == token.kind \in {"none", "empty"}

\* jwt.get_unverified_header(token): the header, or JWTError for anything it cannot read.
get_unverified_header(token) ==
    IF token.kind = "jwt"
    THEN [error |-> "none", ret |-> [kid |-> token.kid, alg |-> "RS256"]]
    ELSE [error |-> "JWTError"]

\* jwt.decode(token, public_key, algorithms=[RSAA], audience=audience): the signature
\* is verified first, then the expiry, then the audience.
decode(token, public_key, audience) ==
    IF token.kind # "jwt" \/ token.state = "bad_signature" THEN [error |-> "JWTError"]
    ELSE IF token.state = "expired" THEN [error |-> "ExpiredSignatureError"]
    ELSE IF token.aud # audience THEN [error |-> "JWTClaimsError"]
    ELSE [error |-> "none", ret |-> [aud |-> token.aud, kid |-> public_key.kid]]

\* A plausible slip: the refresh gives a token that verifies.
refresh_token_reissued(expired_token) == [expired_token EXCEPT !.state = "ok"]

\* refresh_token(expired_token): the stub returns {"access_token": ...}, a dict.
refresh_token(expired_token) == RefreshedToken

\* The except clauses of get_public_key, for what its try block has raised: JWTError
\* first, any other Exception (an HTTPException is one) after it.
get_public_key_except(raised) ==
    IF raised.error = "JWTError"
    THEN HTTPException(403, "Invalid token headers.")
    ELSE HTTPException(500, "Error processing token.")

\* get_public_key
get_public_key(c, token, jwks_url, response) ==
    LET h == get_unverified_header(token)
    IN  IF h.error # "none"
        THEN get_public_key_except(h) @@ [calls |-> <<"jwt.get_unverified_header">>, cache |-> c]
        ELSE LET kid   == h.ret.kid
                 k     == get_jwks_keys(c, jwks_url, response)
                 calls == <<"jwt.get_unverified_header">> \o k.calls
             IN  IF k.error # "none"
                 THEN get_public_key_except(k) @@ [calls |-> calls, cache |-> k.cache]
                 ELSE IF kid = None \/ Val(kid) \notin DOMAIN k.ret
                      THEN get_public_key_except(
                               HTTPException(403, "Public key not found for the given token."))
                              @@ [calls |-> calls, cache |-> k.cache]
                      ELSE [error |-> "none", ret |-> k.ret[Val(kid)],
                            calls |-> calls, cache |-> k.cache]

\* A plausible slip: the test for a missing token is left out.
RECURSIVE verify_token_unchecked(_, _, _, _, _)
verify_token_unchecked(c, token, jwks_url, audience, response) ==
    LET k == get_public_key(c, token, jwks_url, response)
    IN  IF k.error # "none"
        THEN HTTPException(403, "Token is invalid.") @@ [calls |-> k.calls, cache |-> k.cache]
        ELSE LET d     == decode(token, k.ret, audience)
                 calls == Append(k.calls, "jwt.decode")
             IN  CASE d.error = "JWTClaimsError" ->
                        HTTPException(403, "Claims verification failed.")
                           @@ [calls |-> calls, cache |-> k.cache]
                   [] d.error = "ExpiredSignatureError" ->
                        LET n == verify_token_unchecked(k.cache, refresh_token(token),
                                                        jwks_url, audience, response)
                        IN  [n EXCEPT !.calls = calls \o <<"refresh_token", "verify_token">> \o n.calls]
                   [] d.error = "JWTError" ->
                        HTTPException(403, "Token is invalid.")
                           @@ [calls |-> calls, cache |-> k.cache]
                   [] OTHER ->
                        [error |-> "none", ret |-> d.ret, calls |-> calls, cache |-> k.cache]

\* verify_token: an HTTPException out of get_public_key is neither a JWTClaimsError nor
\* an ExpiredSignatureError, so the last clause, except Exception, takes it; what the
\* nested verify_token raises inside the ExpiredSignatureError clause passes through.
RECURSIVE verify_token(_, _, _, _, _)
verify_token(c, token, jwks_url, audience, response) ==
    IF Falsy(token)
    THEN HTTPException(403, "Access Token is missing") @@ [calls |-> <<>>, cache |-> c]
    ELSE LET k == get_public_key(c, token, jwks_url, response)
         IN  IF k.error # "none"
             THEN HTTPException(403, "Token is invalid.") @@ [calls |-> k.calls, cache |-> k.cache]
             ELSE LET d     == decode(token, k.ret, audience)
                      calls == Append(k.calls, "jwt.decode")
                  IN  CASE d.error = "JWTClaimsError" ->
                             HTTPException(403, "Claims verification failed.")
                                @@ [calls |-> calls, cache |-> k.cache]
                        [] d.error = "ExpiredSignatureError" ->
                             LET n == verify_token(k.cache, refresh_token(token),
                                                   jwks_url, audience, response)
                             IN  [n EXCEPT !.calls = calls \o <<"refresh_token", "verify_token">> \o n.calls]
                        [] d.error = "JWTError" ->
                             HTTPException(403, "Token is invalid.")
                                @@ [calls |-> calls, cache |-> k.cache]
                        [] OTHER ->
                             [error |-> "none", ret |-> d.ret, calls |-> calls, cache |-> k.cache]

\* ------------------------------------------------------------------ the managed-identity token

\* cache = TTLCache(maxsize=100, ttl=300) of azure_service_identity
IdentityTtl == 300

Scopes == {"s1", "s2"}

\* What DefaultAzureCredential().get_token(scope) may do: give a token or raise.
CredentialResponses ==
    {[kind |-> "ok", token |-> "t1"], [kind |-> "ok", token |-> "t2"],
     [kind |-> "raise", exception |-> "ClientAuthenticationError"],
     [kind |-> "raise", exception |-> "CredentialUnavailableError"]}

\* A plausible slip: the failure is logged and swallowed, and the call returns nothing.
get_access_token_swallows(c, scope, response) ==
    IF Live(c, scope)
    THEN [error |-> "none", ret |-> c[scope].value, calls |-> <<>>, cache |-> c]
    ELSE LET ret == IF response.kind = "ok" THEN Some(response.token) ELSE None
         IN  [error |-> "none", ret |-> ret, calls |-> <<"credential.get_token">>,
              cache |-> (scope :> [value |-> ret, expires |-> timer + IdentityTtl]) @@ Expire(c)]

\* get_access_token under @cached(cache): the token stored for the scope when there is
\* a live one; otherwise one call of the credential, whose token is stored; what the
\* credential raises is logged and raised again as it is, and nothing is stored.
get_access_token(c, scope, response) ==
    IF Live(c, scope)
    THEN [error |-> "none", ret |-> c[scope].value, calls |-> <<>>, cache |-> c]
    ELSE IF response.kind = "ok"
         THEN [error |-> "none", ret |-> Some(response.token),
               calls |-> <<"credential.get_token">>,
               cache |-> (scope :> [value |-> Some(response.token),
                                    expires |-> timer + IdentityTtl]) @@ Expire(c)]
         ELSE [error |-> response.exception, calls |-> <<"credential.get_token">>, cache |-> c]

\* ------------------------------------------------------------------ the session-scoping wrappers

\* What the unit of work that runs at the yield ends with: nothing, the InternalError
\* this module defines, or any other exception.
Thrown == {"none", "InternalError", "Exception"}

\* session.close(), in the finally clause and once more when the with block is left:
\* the open transaction is given up and the session holds nothing.
Closed(o) == [o EXCEPT !.calls = @ \o <<"close", "close">>, !.txn = o.committed, !.pendingDel = {}]

\* A plausible slip: the session is left open when the unit of work raises.
db_dependency_exit_leaks(thrown) ==
    IF thrown = "none"
    THEN Closed([calls |-> <<"commit">>, raised |-> "none", txn |-> FlushedDeletes(txn, pendingDel),
                 committed |-> FlushedDeletes(txn, pendingDel), pendingDel |-> {}])
    ELSE [calls |-> <<>>, raised |-> thrown, txn |-> txn, committed |-> committed,
          pendingDel |-> pendingDel]

\* db_dependency from the point where its yield is resumed: commit when the unit of work
\* has returned; rollback and raise again when it has thrown InternalError; nothing for
\* another exception, which passes through; close in every case.
db_dependency_exit(thrown) ==
    IF thrown = "none"
    THEN Closed([calls |-> <<"commit">>, raised |-> "none", txn |-> FlushedDeletes(txn, pendingDel),
                 committed |-> FlushedDeletes(txn, pendingDel), pendingDel |-> {}])
    ELSE IF thrown = "InternalError"
         THEN Closed([calls |-> <<"rollback">>, raised |-> "InternalError", txn |-> committed,
                      committed |-> committed, pendingDel |-> {}])
         ELSE Closed([calls |-> <<>>, raised |-> thrown, txn |-> txn, committed |-> committed,
                      pendingDel |-> pendingDel])

\* A plausible slip: the commit is made in every case.
async_db_dependency_exit_commits(thrown) ==
    Closed([calls |-> <<"commit">>, raised |-> thrown, txn |-> FlushedDeletes(txn, pendingDel),
            committed |-> FlushedDeletes(txn, pendingDel), pendingDel |-> {}])

\* async_db_dependency from its yield on: the same as db_dependency, awaited.
async_db_dependency_exit(thrown) ==
    IF thrown = "none"
    THEN Closed([calls |-> <<"commit">>, raised |-> "none", txn |-> FlushedDeletes(txn, pendingDel),
                 committed |-> FlushedDeletes(txn, pendingDel), pendingDel |-> {}])
    ELSE IF thrown = "InternalError"
         THEN Closed([calls |-> <<"rollback">>, raised |-> "InternalError", txn |-> committed,
                      committed |-> committed, pendingDel |-> {}])
         ELSE Closed([calls |-> <<>>, raised |-> thrown, txn |-> txn, committed |-> committed,
                      pendingDel |-> pendingDel])

\* ------------------------------------------------------------------ claims of a payload

\* The values of a decoded payload: strings, and dicts from field names to values.
Str(value) == [kind |-> "str", value |-> value]
Dict(items) == [kind |-> "dict", items |-> items]

\* parse(claim_json_path), for a path of field names joined by dots: the fields,
\* outermost first.
parse(claim_json_path) ==
    LET parts == SplitDot(claim_json_path)
    IN  [i \in DOMAIN parts |-> parts[i][1]]

\* jsonpath_expression.find(datum): a field matches a dict that has it and nothing
\* else; the fields after it are looked up in what it matched.
RECURSIVE find(_, _)
find(fields, datum) ==
    IF fields = <<>> THEN <<datum>>
    ELSE IF datum.kind = "dict" /\ Head(fields) \in DOMAIN datum.items
         THEN find(Tail(fields), datum.items[Head(fields)])
         ELSE <<>>

\* get_claim_from_payload: matches[0] of an empty list raises IndexError.
get_claim_from_payload(payload, claim_json_path) ==
    LET matches == find(parse(claim_json_path), payload)
    IN  IF matches = <<>>
        THEN [error |-> "IndexError"]
        ELSE [error |-> "none", ret |-> matches[1]]

\* ------------------------------------------------------------------ the caller

\* The caller takes the outcome of the call that returned and is free to call again.
Return ==
    /\ res # Idle
    /\ res' = Idle
    /\ UNCHANGED <<committed, txn, pendingDel, related, now, cache, timer, identity_cache, unit, threads>>

\* ------------------------------------------------------------------ pagination arithmetic on its own

InitPagination ==
    /\ committed = {}
    /\ txn = {}
    /\ pendingDel = {}
    /\ related = {}
    /\ now = 0
    /\ cache = <<>>
    /\ timer = 0
    /\ identity_cache = <<>>
    /\ unit = NoUnit
    /\ threads = NoThreads
    /\ res = Idle

CalculatePagination ==
    /\ res = Idle
    /\ \E total \in 0..MaxPagTotal, skip \in Opt(0..MaxPagSkip), limit \in Opt(0..MaxPagLimit) :
         res' = [op |-> "_calculate_pagination", total |-> total, skip |-> skip, limit |-> limit,
                 out |-> _calculate_pagination(total, skip, limit)]
    /\ UNCHANGED <<committed, txn, pendingDel, related, now, cache, timer, identity_cache, unit, threads>>

NextPagination == CalculatePagination \/ Return

SpecPagination == InitPagination /\ [][NextPagination]_vars

\* ------------------------------------------------------------------ reads over any stored rows

MaxSkip == 2
MaxLimit == 2
DefaultSkip == 0
DefaultLimit == 100

\* The arguments the reads are called with.
Filters ==
    {None,
     Some("name" :> <<"a", "b">>),
     Some(("name" :> <<"B">>) @@ ("qty" :> 1)),
     Some(("name" :> <<"B">>) @@ ("qty" :> 0)),
     Some(("qty" :> 1) @@ ("bogus" :> 1))}

OrderBys ==
    {None,
     Some(<< <<"name">> >>),
     Some(<< <<"-", "qty">>, <<"name">> >>),
     Some(<< <<"items", ".", "title">> >>),
     Some(<< <<"bogus">> >>)}

Searches ==
    {[fields |-> None, text |-> None],
     [fields |-> Some(<< <<"name">> >>), text |-> None],
     [fields |-> Some(<< <<"name">> >>), text |-> Some(<<"b">>)],
     [fields |-> Some(<< <<"items", ".", "title">> >>), text |-> Some(<<"b">>)],
     [fields |-> Some(<< <<"name">>, <<"items", ".", "title">> >>), text |-> Some(<<"b">>)],
     [fields |-> Some(<< <<"qty">> >>), text |-> Some(<<"b">>)]}

Skips == Opt(0..MaxSkip) \cup {Some(DefaultSkip)}
Limits == Opt(0..MaxLimit)

\* The rows storage may hold when the reads start: any of the records below, and
\* any of the related rows below under any owner (none, one or several per record).
StoredRecord(i) ==
    [id   |-> i,
     name |-> IF i = 1 THEN <<"a", "b">> ELSE <<"B">>,
     qty  |-> IF i = 2 THEN 1 ELSE 0,
     created_on |-> 0,
     updated_on |-> 0]

StoredItem(i, owner) ==
    [id |-> i, owner_id |-> owner, title |-> IF i = 1 THEN <<"b">> ELSE <<"A", "_">>]

StoredTables == {{StoredRecord(i) : i \in S} : S \in SUBSET Ids}

StoredItemTables ==
    UNION {{{StoredItem(i, owner[i]) : i \in S} : owner \in [S -> Ids]} : S \in SUBSET ItemIds}

InitRead ==
    /\ committed \in StoredTables
    /\ txn = committed
    /\ pendingDel = {}
    /\ related \in {t \in StoredItemTables : \A it \in t : it.owner_id \in Ids_of(committed)}
    /\ now = 0
    /\ cache = <<>>
    /\ timer = 0
    /\ identity_cache = <<>>
    /\ unit = NoUnit
    /\ threads = NoThreads
    /\ res = Idle

Unchanged == UNCHANGED <<committed, txn, pendingDel, related, now, cache, timer, identity_cache, unit, threads>>

Exists ==
    /\ res = Idle
    /\ \E qf \in Filters \ {None} :
         res' = [op |-> "exists", mode |-> "sync", query_filter |-> qf,
                 out |-> exists([kind |-> "dict", val |-> Val(qf)])]
    /\ Unchanged

ExistsAsync ==
    /\ res = Idle
    /\ \E qf \in Filters \ {None} :
         res' = [op |-> "exists", mode |-> "async", query_filter |-> qf,
                 out |-> exists_async([kind |-> "dict", val |-> Val(qf)])]
    /\ Unchanged

GetModelsByIds ==
    /\ res = Idle
    /\ \E ids \in SUBSET Ids : \E o \in get_models_by_ids(ids) :
         res' = [op |-> "get_models_by_ids", mode |-> "sync", ids |-> ids, out |-> o]
    /\ Unchanged

GetModelsByIdsAsync ==
    /\ res = Idle
    /\ \E ids \in SUBSET Ids : \E o \in get_models_by_ids_async(ids) :
         res' = [op |-> "get_models_by_ids", mode |-> "async", ids |-> ids, out |-> o]
    /\ Unchanged

Get ==
    /\ res = Idle
    /\ \E qf \in Filters, skip \in Skips, limit \in Limits \cup {Some(DefaultLimit)} :
         \E o \in get(qf, skip, limit) :
            res' = [op |-> "get", mode |-> "sync", query_filter |-> qf,
                    skip |-> skip, limit |-> limit, out |-> o]
    /\ Unchanged

GetAsync ==
    /\ res = Idle
    /\ \E qf \in Filters, skip \in Skips, limit \in Limits \cup {Some(DefaultLimit)} :
         \E o \in get_async(qf, skip, limit) :
            res' = [op |-> "get", mode |-> "async", query_filter |-> qf,
                    skip |-> skip, limit |-> limit, out |-> o]
    /\ Unchanged

GetPaginated ==
    /\ res = Idle
    /\ \E qf \in Filters, skip \in Skips, limit \in Limits, order_by \in OrderBys, s \in Searches :
         \E o \in get_paginated(qf, skip, limit, order_by, s.fields, s.text) :
            res' = [op |-> "get_paginated", mode |-> "sync", query_filter |-> qf,
                    skip |-> skip, limit |-> limit, order_by |-> order_by,
                    search_fields |-> s.fields, search_text |-> s.text, out |-> o]
    /\ Unchanged

GetPaginatedAsync ==
    /\ res = Idle
    /\ \E qf \in Filters, skip \in Skips, limit \in Limits, order_by \in OrderBys, s \in Searches :
         \E o \in get_paginated_async(qf, skip, limit, order_by, s.fields, s.text) :
            res' = [op |-> "get_paginated", mode |-> "async", query_filter |-> qf,
                    skip |-> skip, limit |-> limit, order_by |-> order_by,
                    search_fields |-> s.fields, search_text |-> s.text, out |-> o]
    /\ Unchanged

NextRead ==
    \/ Exists \/ ExistsAsync
    \/ GetModelsByIds \/ GetModelsByIdsAsync
    \/ Get \/ GetAsync
    \/ GetPaginated \/ GetPaginatedAsync
    \/ Return

SpecRead == InitRead /\ [][NextRead]_vars

\* ------------------------------------------------------------------ searches over any stored rows

\* The search arguments of get_paginated: field paths that end in a text column, in a
\* column that is not text, or nowhere, on the record type and through the relationship.
SearchFieldLists ==
    {<< <<"name">> >>,
     << <<"qty">> >>,
     << <<"name">>, <<"qty">> >>,
     << <<"qty">>, <<"bogus">> >>,
     << <<"bogus">>, <<"qty">> >>,
     << <<"items", ".", "title">> >>,
     << <<"items", ".", "id">> >>,
     << <<"name">>, <<"items", ".", "title">> >>}

SearchTexts == {None, Some(<<>>), Some(<<"b">>), Some(<<"_">>)}

SearchFilters == {None, Some(("name" :> <<"B">>) @@ ("qty" :> 0))}

Search ==
    /\ res = Idle
    /\ \E qf \in SearchFilters, limit \in {None, Some(1)},
          fields \in {None} \cup {Some(f) : f \in SearchFieldLists}, text \in SearchTexts :
         \E o \in get_paginated(qf, None, limit, None, fields, text) :
            res' = [op |-> "get_paginated", mode |-> "sync", query_filter |-> qf,
                    skip |-> None, limit |-> limit, order_by |-> None,
                    search_fields |-> fields, search_text |-> text, out |-> o]
    /\ Unchanged

SearchAsync ==
    /\ res = Idle
    /\ \E qf \in SearchFilters, limit \in {None, Some(1)},
          fields \in {None} \cup {Some(f) : f \in SearchFieldLists}, text \in SearchTexts :
         \E o \in get_paginated_async(qf, None, limit, None, fields, text) :
            res' = [op |-> "get_paginated", mode |-> "async", query_filter |-> qf,
                    skip |-> None, limit |-> limit, order_by |-> None,
                    search_fields |-> fields, search_text |-> text, out |-> o]
    /\ Unchanged

NextSearch == Search \/ SearchAsync \/ Return

SpecSearch == InitRead /\ [][NextSearch]_vars

\* ------------------------------------------------------------------ writes through one session

\* The records the writes are called with; id none asks for a generated id.
WriteModels == [id : Opt(Ids), name : NameVals, qty : {0}]

\* What the session does to storage does not depend on the time of day: every call
\* here falls within one reading of the clock, the last one.
Init ==
    /\ committed = {}
    /\ txn = {}
    /\ pendingDel = {}
    /\ related = {}
    /\ now = MaxClock
    /\ cache = <<>>
    /\ timer = 0
    /\ identity_cache = <<>>
    /\ unit = NoUnit
    /\ threads = NoThreads
    /\ res = Idle

\* The session and storage before the call, kept with its outcome.
Before == [txn |-> txn, committed |-> committed, pendingDel |-> pendingDel, now |-> now]

Apply(op, mode, model, id, defer_commit, o) ==
    /\ res' = [op |-> op, mode |-> mode, model |-> model, id |-> id,
               defer_commit |-> defer_commit, before |-> Before,
               out |-> [k \in DOMAIN o \ {"txn", "committed", "pendingDel", "now"} |-> o[k]]]
    /\ txn' = o.txn
    /\ committed' = o.committed
    /\ pendingDel' = o.pendingDel
    /\ now' = o.now
    /\ UNCHANGED <<related, cache, timer, identity_cache, unit, threads>>

\* create is called with a record that has no id yet or an id that is not in use.
Create ==
    /\ res = Idle
    /\ \E model \in WriteModels, defer_commit \in BOOLEAN :
         /\ IF model.id = None THEN TRUE ELSE Val(model.id) \in FreshIds
         /\ \E o \in create(model, defer_commit) :
              Apply("create", "sync", model, None, defer_commit, o)

CreateAsync ==
    /\ res = Idle
    /\ \E model \in WriteModels, defer_commit \in BOOLEAN :
         /\ IF model.id = None THEN TRUE ELSE Val(model.id) \in FreshIds
         /\ \E o \in create_async(model, defer_commit) :
              Apply("create", "async", model, None, defer_commit, o)

Update ==
    /\ res = Idle
    /\ \E model \in WriteModels, defer_commit \in BOOLEAN :
         \E o \in update(model, defer_commit) :
            Apply("update", "sync", model, None, defer_commit, o)

UpdateAsync ==
    /\ res = Idle
    /\ \E model \in WriteModels, defer_commit \in BOOLEAN :
         \E o \in update_async(model, defer_commit) :
            Apply("update", "async", model, None, defer_commit, o)

Delete ==
    /\ res = Idle
    /\ \E id \in Ids, defer_commit \in BOOLEAN :
         \E o \in delete(id, defer_commit) :
            Apply("delete", "sync", None, Some(id), defer_commit, o)

DeleteAsync ==
    /\ res = Idle
    /\ \E id \in Ids, defer_commit \in BOOLEAN :
         \E o \in delete_async(id, defer_commit) :
            Apply("delete", "async", None, Some(id), defer_commit, o)

GetById ==
    /\ res = Idle
    /\ \E id \in Ids :
         Apply("get_by_id", "sync", None, Some(id), FALSE, NoWrite(get_by_id(id)))

GetByIdAsync ==
    /\ res = Idle
    /\ \E id \in Ids :
         Apply("get_by_id", "async", None, Some(id), FALSE, NoWrite(get_by_id_async(id)))

\* The caller of the repository commits the session itself (the unit of work of
\* db_dependency does so when it ends without an error).
Commit ==
    /\ res = Idle
    /\ Apply("commit", "sync", None, None, FALSE,
             [error |-> "none", calls |-> <<"commit">>, ret |-> None,
              txn |-> FlushedDeletes(txn, pendingDel),
              committed |-> FlushedDeletes(txn, pendingDel), pendingDel |-> {}, now |-> now])

Next ==
    \/ Create \/ CreateAsync
    \/ Update \/ UpdateAsync
    \/ Delete \/ DeleteAsync
    \/ GetById \/ GetByIdAsync
    \/ Commit
    \/ Return

Spec == Init /\ [][Next]_vars

\* ------------------------------------------------------------------ records and their timestamps

InitClock ==
    /\ committed = {}
    /\ txn = {}
    /\ pendingDel = {}
    /\ related = {}
    /\ now = 0
    /\ cache = <<>>
    /\ timer = 0
    /\ identity_cache = <<>>
    /\ unit = NoUnit
    /\ threads = NoThreads
    /\ res = Idle

\* Time passes between two calls.
Tick ==
    /\ res = Idle
    /\ now < MaxClock
    /\ now' = now + 1
    /\ UNCHANGED <<committed, txn, pendingDel, related, cache, timer, identity_cache, unit, threads, res>>

\* create(model), update_async(model): defer_commit is left at its default.
DefaultDeferCommit == FALSE

CreateCommitted ==
    /\ res = Idle
    /\ \E model \in WriteModels :
         /\ IF model.id = None THEN TRUE ELSE Val(model.id) \in FreshIds
         /\ \E o \in create(model, DefaultDeferCommit) :
              Apply("create", "sync", model, None, DefaultDeferCommit, o)

UpdateAsyncCommitted ==
    /\ res = Idle
    /\ \E model \in WriteModels :
         \E o \in update_async(model, DefaultDeferCommit) :
            Apply("update", "async", model, None, DefaultDeferCommit, o)

NextClock ==
    \/ CreateCommitted
    \/ UpdateAsyncCommitted
    \/ GetById
    \/ Tick
    \/ Return

SpecClock == InitClock /\ [][NextClock]_vars

\* ------------------------------------------------------------------ calls through the manager

\* The arguments the manager is called with.
ManagerFilters == {None, Some("name" :> <<"B">>)}
ManagerSkips == {None, Some(DefaultSkip), Some(1)}
ManagerLimits == {None, Some(1), Some(DefaultLimit)}
ManagerOrderBys == {None, Some(<< <<"-", "name">> >>)}

ApplyManager(op, mode, args, m) ==
    /\ res' = [op |-> op, mode |-> mode, args |-> args, before |-> Before,
               repository |-> m.repository,
               out |-> [k \in DOMAIN m.out \ {"txn", "committed", "pendingDel", "now"} |-> m.out[k]]]
    /\ txn' = m.out.txn
    /\ committed' = m.out.committed
    /\ pendingDel' = m.out.pendingDel
    /\ now' = m.out.now
    /\ UNCHANGED <<related, cache, timer, identity_cache, unit, threads>>

ManagerGetById ==
    /\ res = Idle
    /\ \E id \in Ids :
         \E m \in BaseManager_get_by_id(id) :
             ApplyManager("get_by_id", "sync", <<id>>, m)

ManagerGetByIdAsync ==
    /\ res = Idle
    /\ \E id \in Ids :
         \E m \in BaseManager_get_by_id_async(id) :
             ApplyManager("get_by_id", "async", <<id>>, m)

ManagerCreate ==
    /\ res = Idle
    /\ \E model \in WriteModels, defer_commit \in BOOLEAN :
         /\ IF model.id = None THEN TRUE ELSE Val(model.id) \in FreshIds
         /\ \E m \in BaseManager_create(model, defer_commit) :
                  ApplyManager("create", "sync", <<model, defer_commit>>, m)

ManagerCreateAsync ==
    /\ res = Idle
    /\ \E model \in WriteModels, defer_commit \in BOOLEAN :
         /\ IF model.id = None THEN TRUE ELSE Val(model.id) \in FreshIds
         /\ \E m \in BaseManager_create_async(model, defer_commit) :
                  ApplyManager("create", "async", <<model, defer_commit>>, m)

ManagerUpdate ==
    /\ res = Idle
    /\ \E model \in WriteModels, defer_commit \in BOOLEAN :
         \E m \in BaseManager_update(model, defer_commit) :
             ApplyManager("update", "sync", <<model, defer_commit>>, m)

ManagerUpdateAsync ==
    /\ res = Idle
    /\ \E model \in WriteModels, defer_commit \in BOOLEAN :
         \E m \in BaseManager_update_async(model, defer_commit) :
             ApplyManager("update", "async", <<model, defer_commit>>, m)

ManagerDelete ==
    /\ res = Idle
    /\ \E id \in Ids, defer_commit \in BOOLEAN :
         \E m \in BaseManager_delete(id, defer_commit) :
             ApplyManager("delete", "sync", <<id, defer_commit>>, m)

ManagerDeleteAsync ==
    /\ res = Idle
    /\ \E id \in Ids, defer_commit \in BOOLEAN :
         \E m \in BaseManager_delete_async(id, defer_commit) :
             ApplyManager("delete", "async", <<id, defer_commit>>, m)

ManagerGet ==
    /\ res = Idle
    /\ \E qf \in ManagerFilters, skip \in ManagerSkips, limit \in ManagerLimits :
         \E m \in BaseManager_get(qf, skip, limit) :
             ApplyManager("get", "sync", <<qf, skip, limit>>, m)

ManagerGetAsync ==
    /\ res = Idle
    /\ \E qf \in ManagerFilters, skip \in ManagerSkips, limit \in ManagerLimits :
         \E m \in BaseManager_get_async(qf, skip, limit) :
             ApplyManager("get", "async", <<qf, skip, limit>>, m)

ManagerGetModelsByIds ==
    /\ res = Idle
    /\ \E ids \in SUBSET Ids :
         \E m \in BaseManager_get_models_by_ids(ids) :
             ApplyManager("get_models_by_ids", "sync", <<ids>>, m)

ManagerGetModelsByIdsAsync ==
    /\ res = Idle
    /\ \E ids \in SUBSET Ids :
         \E m \in BaseManager_get_models_by_ids_async(ids) :
             ApplyManager("get_models_by_ids", "async", <<ids>>, m)

ManagerGetPaginated ==
    /\ res = Idle
    /\ \E qf \in ManagerFilters, skip \in ManagerSkips, limit \in ManagerLimits, order_by \in ManagerOrderBys :
         \E m \in BaseManager_get_paginated(qf, skip, limit, order_by, None, None) :
             ApplyManager("get_paginated", "sync", <<qf, skip, limit, order_by, None, None>>, m)

ManagerGetPaginatedAsync ==
    /\ res = Idle
    /\ \E qf \in ManagerFilters, skip \in ManagerSkips, limit \in ManagerLimits, order_by \in ManagerOrderBys :
         \E m \in BaseManager_get_paginated_async(qf, skip, limit, order_by, None, None) :
             ApplyManager("get_paginated", "async", <<qf, skip, limit, order_by, None, None>>, m)

ManagerExists ==
    /\ res = Idle
    /\ \E qf \in ManagerFilters \ {None} :
         \E m \in BaseManager_undefined("exists") :
             ApplyManager("exists", "sync", <<qf>>, m)

ManagerExistsAsync ==
    /\ res = Idle
    /\ \E qf \in ManagerFilters \ {None} :
         \E m \in BaseManager_undefined("exists") :
             ApplyManager("exists", "async", <<qf>>, m)

NextManager ==
    \/ ManagerGetById \/ ManagerGetByIdAsync
    \/ ManagerCreate \/ ManagerCreateAsync
    \/ ManagerUpdate \/ ManagerUpdateAsync
    \/ ManagerDelete \/ ManagerDeleteAsync
    \/ ManagerGet \/ ManagerGetAsync
    \/ ManagerGetModelsByIds \/ ManagerGetModelsByIdsAsync
    \/ ManagerGetPaginated \/ ManagerGetPaginatedAsync
    \/ ManagerExists \/ ManagerExistsAsync
    \/ Return

SpecManager == Init /\ [][NextManager]_vars

\* ------------------------------------------------------------------ token verification over time

TimeStep == 300
MaxTimer == 900

InitToken ==
    /\ committed = {}
    /\ txn = {}
    /\ pendingDel = {}
    /\ related = {}
    /\ now = 0
    /\ cache = <<>>
    /\ timer = 0
    /\ identity_cache = <<>>
    /\ unit = NoUnit
    /\ threads = NoThreads
    /\ res = Idle

NoRequest == [kind |-> "none"]

\* The outcome of a call on the verifier, kept with the cache and the timer before it
\* and with the answer of the JWKS endpoint when the call has asked it.
ApplyToken(call, response, o) ==
    /\ res' = call @@ [before   |-> [cache |-> cache, timer |-> timer],
                       response |-> IF \E i \in DOMAIN o.calls : o.calls[i] = "requests.get"
                                    THEN response ELSE NoRequest,
                       out      |-> [k \in DOMAIN o \ {"cache"} |-> o[k]]]
    /\ cache' = o.cache
    /\ UNCHANGED <<committed, txn, pendingDel, related, now, timer, identity_cache, unit, threads>>

GetJwksKeys ==
    /\ res = Idle
    /\ \E jwks_url \in Urls, response \in Responses :
         ApplyToken([op |-> "get_jwks_keys", jwks_url |-> jwks_url], response,
                    get_jwks_keys(cache, jwks_url, response))

GetPublicKey ==
    /\ res = Idle
    /\ \E token \in Tokens, jwks_url \in Urls, response \in Responses :
         ApplyToken([op |-> "get_public_key", token |-> token, jwks_url |-> jwks_url], response,
                    get_public_key(cache, token, jwks_url, response))

VerifyToken ==
    /\ res = Idle
    /\ \E token \in Tokens, jwks_url \in Urls, audience \in Audiences, response \in Responses :
         ApplyToken([op |-> "verify_token", token |-> token, jwks_url |-> jwks_url,
                     audience |-> audience], response,
                    verify_token(cache, token, jwks_url, audience, response))

\* Time passes between two calls.
Advance ==
    /\ res = Idle
    /\ timer + TimeStep <= MaxTimer
    /\ timer' = timer + TimeStep
    /\ UNCHANGED <<committed, txn, pendingDel, related, now, cache, identity_cache, unit, threads, res>>

NextToken == GetJwksKeys \/ GetPublicKey \/ VerifyToken \/ Advance \/ Return

SpecToken == InitToken /\ [][NextToken]_vars

\* ------------------------------------------------------------------ the two caches over time

GetAccessToken ==
    /\ res = Idle
    /\ \E scope \in Scopes, response \in CredentialResponses :
         LET o == get_access_token(identity_cache, scope, response)
         IN  /\ res' = [op |-> "get_access_token", scope |-> scope,
                        before |-> [cache |-> identity_cache, timer |-> timer],
                        response |-> IF o.calls = <<>> THEN NoRequest ELSE response,
                        out |-> [k \in DOMAIN o \ {"cache"} |-> o[k]]]
             /\ identity_cache' = o.cache
    /\ UNCHANGED <<committed, txn, pendingDel, related, now, cache, timer, unit, threads>>

NextCaches == GetJwksKeys \/ GetAccessToken \/ Advance \/ Return

SpecCaches == InitToken /\ [][NextCaches]_vars

\* ------------------------------------------------------------------ the JWKS cache under threads
\* get_jwks_keys is a plain function, so callers that run at the same time are threads.
\* @cached(cache) is given no lock: the wrapper looks the key up, calls the function on
\* a miss and stores the result, and a thread may be anywhere in that while another
\* one is. A lookup or a store of a key while another thread is inside the store of
\* the same key is a data race on the TTLCache, which is not made for threads: it either
\* goes as if the other store had not begun, or fails inside the cache.

Threads == {"t1", "t2"}

IdleThread == [pc |-> "idle"]

InitThreads ==
    /\ committed = {}
    /\ txn = {}
    /\ pendingDel = {}
    /\ related = {}
    /\ now = 0
    /\ cache = <<>>
    /\ timer = 0
    /\ identity_cache = <<>>
    /\ unit = NoUnit
    /\ threads = [t \in Threads |-> IdleThread]
    /\ res = Idle

\* Another thread is inside cache[key] = value for this key.
InSetItem(t, key) ==
    \E u \in Threads \ {t} : threads[u].pc = "in_setitem" /\ threads[u].jwks_url = key

OnlyThreads == UNCHANGED <<committed, txn, pendingDel, related, now, cache, timer, identity_cache, unit, res>>

\* try: return cache[k]
CachedLookup(t) ==
    /\ threads[t].pc = "idle"
    /\ \E jwks_url \in Urls :
         \/ /\ Live(cache, jwks_url)
            /\ threads' = [threads EXCEPT ![t] =
                   [pc |-> "done", jwks_url |-> jwks_url,
                    out |-> [error |-> "none", ret |-> cache[jwks_url].value]]]
         \/ /\ ~Live(cache, jwks_url)
            /\ threads' = [threads EXCEPT ![t] = [pc |-> "calling", jwks_url |-> jwks_url]]
         \/ /\ InSetItem(t, jwks_url)
            /\ threads' = [threads EXCEPT ![t] =
                   [pc |-> "done", jwks_url |-> jwks_url, out |-> [error |-> "TypeError"]]]
    /\ OnlyThreads

\* v = func(*args): the body of get_jwks_keys, with its request.
CachedCall(t) ==
    /\ threads[t].pc = "calling"
    /\ \E response \in Responses :
         threads' = [threads EXCEPT ![t] =
             IF response.kind = "ok"
             THEN [pc |-> "storing", jwks_url |-> threads[t].jwks_url, v |-> KeysOf(response)]
             ELSE [pc |-> "done", jwks_url |-> threads[t].jwks_url,
                   out |-> HTTPException(500, "Failed to fetch JWKS keys.")]]
    /\ OnlyThreads

\* cache[k] = v begins: the expired entries go, the value is written and the link of
\* the key is made.
CachedStoreBegin(t) ==
    /\ threads[t].pc = "storing"
    /\ \/ threads' = [threads EXCEPT ![t].pc = "in_setitem"]
       \/ /\ InSetItem(t, threads[t].jwks_url)
          /\ threads' = [threads EXCEPT ![t] =
                 [pc |-> "done", jwks_url |-> threads[t].jwks_url,
                  out |-> [error |-> "AttributeError"]]]
    /\ OnlyThreads

\* cache[k] = v ends: the link has its expiry and is in the list; return v.
CachedStoreEnd(t) ==
    /\ threads[t].pc = "in_setitem"
    /\ cache' = SetItem(cache, threads[t].jwks_url, threads[t].v)
    /\ threads' = [threads EXCEPT ![t] =
           [pc |-> "done", jwks_url |-> threads[t].jwks_url,
            out |-> [error |-> "none", ret |-> threads[t].v]]]
    /\ UNCHANGED <<committed, txn, pendingDel, related, now, timer, identity_cache, unit, res>>

\* The caller has its answer and may call again.
ThreadReturn(t) ==
    /\ threads[t].pc = "done"
    /\ threads' = [threads EXCEPT ![t] = IdleThread]
    /\ OnlyThreads

NextThreads ==
    \/ \E t \in Threads :
          CachedLookup(t) \/ CachedCall(t) \/ CachedStoreBegin(t) \/ CachedStoreEnd(t) \/ ThreadReturn(t)
    \/ Advance

SpecThreads == InitThreads /\ [][NextThreads]_vars

\* ------------------------------------------------------------------ field paths on their own

MaxSegments == 3

Segments == {"id", "name", "qty", "items", "title", "bogus"}

\* A field name of the given segments: the segments with a dot between two of them.
Dotted(segments) ==
    [i \in 1..(2 * Len(segments) - 1) |-> IF i % 2 = 1 THEN segments[(i + 1) \div 2] ELSE "."]

FieldPaths == {Dotted(segments) : segments \in UNION {[1..n -> Segments] : n \in 1..MaxSegments}}

GetColumnAndJoins ==
    /\ res = Idle
    /\ \E model \in DOMAIN Schema, field_name \in FieldPaths :
         res' = [op |-> "_get_column_and_joins", model |-> model, field_name |-> field_name,
                 out |-> _get_column_and_joins(model, field_name)]
    /\ UNCHANGED <<committed, txn, pendingDel, related, now, cache, timer, identity_cache, unit, threads>>

NextPath == GetColumnAndJoins \/ Return

SpecPath == InitPagination /\ [][NextPath]_vars

\* ------------------------------------------------------------------ units of work

\* db_dependency / async_db_dependency up to the yield: a new session, which holds
\* nothing and sees what is committed.
EnterUnit(mode) ==
    /\ res = Idle
    /\ unit.stage # "open"
    /\ unit' = [stage |-> "open", mode |-> mode]
    /\ txn' = committed
    /\ pendingDel' = {}
    /\ UNCHANGED <<committed, related, now, cache, timer, identity_cache, threads, res>>

DbDependency == EnterUnit("sync")

AsyncDbDependency == EnterUnit("async")

\* The unit of work ends, by returning or by raising, and the wrapper runs to its end.
ExitUnit ==
    /\ res = Idle
    /\ unit.stage = "open"
    /\ \E thrown \in Thrown :
         LET o == IF unit.mode = "sync" THEN db_dependency_exit(thrown)
                  ELSE async_db_dependency_exit(thrown)
         IN  /\ unit' = [stage |-> "closed", mode |-> unit.mode, thrown |-> thrown,
                         calls |-> o.calls, raised |-> o.raised,
                         before |-> [txn |-> txn, committed |-> committed,
                                     pendingDel |-> pendingDel]]
             /\ txn' = o.txn
             /\ committed' = o.committed
             /\ pendingDel' = o.pendingDel
    /\ UNCHANGED <<related, now, cache, timer, identity_cache, threads, res>>

\* The unit of work calls the repository that was given the session of the wrapper.
NextUnit ==
    \/ DbDependency \/ AsyncDbDependency
    \/ ExitUnit
    \/ (unit.stage = "open" /\ unit.mode = "sync" /\ (Create \/ Delete))
    \/ (unit.stage = "open" /\ unit.mode = "async" /\ (CreateAsync \/ DeleteAsync))
    \/ Return

SpecUnit == Init /\ [][NextUnit]_vars

\* ------------------------------------------------------------------ claim extraction on its own

DictsOver(keys, values) == UNION {[S -> values] : S \in SUBSET keys}

ClaimStrings == {Str("a@b.com"), Str("u1")}
InnerDicts == {Dict(f) : f \in DictsOver({"email", "uid"}, ClaimStrings)}
Payloads == {Dict(f) : f \in DictsOver({"uid", "claims"}, ClaimStrings \cup InnerDicts)}

ClaimPaths ==
    {<<"uid">>, <<"email">>, <<"claims">>, <<"claims", ".", "email">>,
     <<"claims", ".", "uid">>, <<"uid", ".", "email">>}

GetClaimFromPayload ==
    /\ res = Idle
    /\ \E payload \in Payloads, claim_json_path \in ClaimPaths :
         res' = [op |-> "get_claim_from_payload", payload |-> payload,
                 claim_json_path |-> claim_json_path,
                 out |-> get_claim_from_payload(payload, claim_json_path)]
    /\ UNCHANGED <<committed, txn, pendingDel, related, now, cache, timer, identity_cache, unit, threads>>

NextClaims == GetClaimFromPayload \/ Return

SpecClaims == InitPagination /\ [][NextClaims]_vars

\* ------------------------------------------------------------------ claims

IsPagination == res.op = "_calculate_pagination"
PagSkip == IF res.skip = None THEN 0 ELSE Val(res.skip)

\* n is floor(a / b), said without the division the code uses.
IsFloorOf(n, a, b) == b > 0 /\ n * b <= a /\ a < (n + 1) * b

\* C1 as stated: for all skip, limit and total with limit set, the call reports
\* next = floor((skip+limit)/limit) + 1 when skip+limit < total, and next = none otherwise.
C1_Original ==
    (IsPagination /\ res.limit # None) =>
        /\ res.out.error = "none"
        /\ IF PagSkip + Val(res.limit) < res.total
           THEN \E n \in 0..(MaxPagSkip + MaxPagLimit + 1) :
                    /\ IsFloorOf(n, PagSkip + Val(res.limit), Val(res.limit))
                    /\ res.out.next = Some(n + 1)
           ELSE res.out.next = None

\* C1 amended: for skip >= 0 (or not given), total >= 0 and limit >= 1 the call reports
\* next = floor((skip+limit)/limit) + 1 when skip+limit < total and next = none otherwise;
\* with limit = 0 and skip < total it raises ZeroDivisionError and reports nothing.
C1_NextPage ==
    (IsPagination /\ res.limit # None) =>
        IF Val(res.limit) >= 1
        THEN /\ res.out.error = "none"
             /\ IF PagSkip + Val(res.limit) < res.total
                THEN \E n \in 0..(MaxPagSkip + MaxPagLimit + 1) :
                         /\ IsFloorOf(n, PagSkip + Val(res.limit), Val(res.limit))
                         /\ res.out.next = Some(n + 1)
                ELSE res.out.next = None
        ELSE PagSkip < res.total => res.out.error = "ZeroDivisionError"

C1_Witness ==
    \/ /\ IsPagination /\ res.total = 25 /\ res.skip = Some(0) /\ res.limit = Some(10)
       /\ res.out.error = "none" /\ res.out.next = Some(2)
    \/ /\ IsPagination /\ res.total = 25 /\ res.skip = Some(20) /\ res.limit = Some(10)
       /\ res.out.error = "none" /\ res.out.next = None

\* C2 as stated: for all skip, limit and total with limit set, the call reports
\* previous = max(floor((skip-limit)/limit) + 1, 1) when skip > 0 and previous = none
\* when skip is 0 or not given.
C2_Original ==
    (IsPagination /\ res.limit # None) =>
        /\ res.out.error = "none"
        /\ IF PagSkip > 0
           THEN \E q \in (-1)..(MaxPagSkip + 1) :
                    /\ IsFloorOf(q, PagSkip - Val(res.limit), Val(res.limit))
                    /\ res.out.previous = Some(Max(q + 1, 1))
           ELSE res.out.previous = None

\* C2 amended: for skip >= 0 (or not given), total >= 0 and limit >= 1 the call reports
\* previous = max(floor((skip-limit)/limit) + 1, 1) >= 1 when skip > 0 and previous = none
\* when skip is 0 or not given; with limit = 0 and skip > 0 it raises ZeroDivisionError.
C2_PreviousPage ==
    (IsPagination /\ res.limit # None) =>
        IF Val(res.limit) >= 1
        THEN /\ res.out.error = "none"
             /\ IF PagSkip > 0
                THEN /\ \E q \in (-1)..(MaxPagSkip + 1) :
                            /\ IsFloorOf(q, PagSkip - Val(res.limit), Val(res.limit))
                            /\ res.out.previous = Some(Max(q + 1, 1))
                     /\ Val(res.out.previous) >= 1
                ELSE res.out.previous = None
        ELSE PagSkip > 0 => res.out.error = "ZeroDivisionError"

C2_Witness ==
    /\ IsPagination /\ res.total = 25 /\ res.skip = Some(3) /\ res.limit = Some(10)
    /\ res.out.error = "none" /\ res.out.previous = Some(1)

\* ------------------------------------------------------------------ claims about the reads

IsGet == res.op = "get"
IsGetPaginated == res.op = "get_paginated"
Returned == res.out.error = "none"

ArgFilter == FilterOrEmpty(res.query_filter)
UnknownKeys == {k \in DOMAIN ArgFilter : k \notin {"id", "name", "qty", "created_on", "updated_on"}}

\* The record satisfies the equality of every key of the filter argument.
RecordMatchesFilter(r) == \A k \in DOMAIN ArgFilter : r[k] = ArgFilter[k]

\* The search and the ordering of the call, read off its arguments.
SearchActive ==
    /\ res.search_text # None /\ Val(res.search_text) # <<>>
    /\ res.search_fields # None /\ Val(res.search_fields) # <<>>
ThroughItems(paths) == \E i \in DOMAIN paths : \E j \in DOMAIN paths[i] : paths[i][j] = "items"
UsesJoin ==
    \/ SearchActive /\ ThroughItems(Val(res.search_fields))
    \/ res.order_by # None /\ ThroughItems(Val(res.order_by))

\* text occurs in value, without regard to case.
Contains(value, text) ==
    \E k \in 0..(Len(value) - Len(text)) :
        \A i \in 1..Len(text) : Lower(value[k + i]) = Lower(text[i])

\* The record has a value containing the search text under one of the search paths.
RecordMatchesSearch(r) ==
    \E i \in DOMAIN Val(res.search_fields) :
        LET path == Val(res.search_fields)[i]
        IN  \/ path = <<"name">> /\ Contains(r.name, Val(res.search_text))
            \/ /\ path = <<"items", ".", "title">>
               /\ \E it \in related : it.owner_id = r.id /\ Contains(it.title, Val(res.search_text))

MatchingRecords ==
    {r \in txn : RecordMatchesFilter(r) /\ (SearchActive => RecordMatchesSearch(r))}

\* C3: with limit = none get_paginated reports next = none and previous = none whatever
\* skip is, never fails in the page arithmetic, still computes total (it covers the
\* records returned, and is their number when nothing is skipped and nothing joined),
\* and reports total as the result's limit.
C3_NoLimitNoPaging ==
    (IsGetPaginated /\ res.limit = None) =>
        /\ res.out.error # "ZeroDivisionError"
        /\ Returned =>
            /\ res.out.next = None
            /\ res.out.previous = None
            /\ res.out.limit = res.out.total
            /\ res.out.total >= Len(res.out.data)
            /\ (res.skip = None /\ ~UsesJoin) => res.out.total = Len(res.out.data)

C3_Witness ==
    /\ IsGetPaginated /\ res.limit = None /\ res.skip = Some(1) /\ Returned
    /\ res.out.total = 2 /\ res.out.limit = 2 /\ Len(res.out.data) = 1
    /\ res.out.next = None /\ res.out.previous = None

\* C4: the total of get_paginated is the number of records that match the filter and
\* the search, each counted once, also when a search or order path joins the related type.
C4_TotalCountsRecords ==
    (IsGetPaginated /\ Returned /\ UnknownKeys = {}) =>
        res.out.total = Cardinality(MatchingRecords)

\* C5: with a filter that names existing fields only, get returns stored records that
\* equal the filter value on every key, and no more than limit of them.
C5_GetFiltersAndLimits ==
    (IsGet /\ UnknownKeys = {}) =>
        /\ Returned
        /\ \A i \in DOMAIN res.out.data :
              res.out.data[i] \in txn /\ RecordMatchesFilter(res.out.data[i])
        /\ res.limit # None => Len(res.out.data) <= Val(res.limit)
        /\ \A i, j \in DOMAIN res.out.data : i # j => res.out.data[i] # res.out.data[j]

C5_Witness ==
    /\ IsGet /\ res.query_filter = Some(("name" :> <<"B">>) @@ ("qty" :> 1))
    /\ res.skip = Some(DefaultSkip) /\ res.limit = Some(DefaultLimit)
    /\ Cardinality(txn) = 2
    /\ Returned /\ Len(res.out.data) = 1

\* C6: a Paginated Result returned by get_paginated with limit set has
\* len(data) <= limit, whatever is stored, filtered, searched, ordered or skipped.
C6_PageWithinLimit ==
    (IsGetPaginated /\ res.limit # None /\ Returned) =>
        Len(res.out.data) <= Val(res.limit)

C6_Witness ==
    /\ IsGetPaginated /\ res.limit = Some(1) /\ Returned
    /\ res.out.total = 2 /\ Len(res.out.data) = 1 /\ res.out.next = Some(2)

\* C7 as stated: a filter with a key that names no attribute of the record type makes
\* exists, get and get_paginated fail, in both modes.
C7_Original ==
    (res.op \in {"exists", "get", "get_paginated"} /\ UnknownKeys # {}) => ~Returned

\* The filter argument without the keys that name no attribute.
KnownOnly == Some([k \in DOMAIN ArgFilter \ UnknownKeys |-> ArgFilter[k]])

\* C7 amended: such a filter makes exists and exists_async fail (InvalidRequestError,
\* before any query runs); get, get_async, get_paginated and get_paginated_async pass
\* the key over and return what the call without that key returns.
C7_UnknownFilterKey ==
    (res.op \in {"exists", "get", "get_paginated"} /\ UnknownKeys # {}) =>
        /\ res.op = "exists" =>
              res.out.error = "InvalidRequestError" /\ res.out.calls = <<>>
        /\ (IsGet /\ res.mode = "sync") => res.out \in get(KnownOnly, res.skip, res.limit)
        /\ (IsGet /\ res.mode = "async") => res.out \in get_async(KnownOnly, res.skip, res.limit)
        /\ (IsGetPaginated /\ res.mode = "sync") =>
              res.out \in get_paginated(KnownOnly, res.skip, res.limit, res.order_by,
                                        res.search_fields, res.search_text)
        /\ (IsGetPaginated /\ res.mode = "async") =>
              res.out \in get_paginated_async(KnownOnly, res.skip, res.limit, res.order_by,
                                              res.search_fields, res.search_text)
        /\ (IsGet /\ Returned) =>
              \A i \in DOMAIN res.out.data :
                 \A k \in DOMAIN ArgFilter \ UnknownKeys : res.out.data[i][k] = ArgFilter[k]

C7_Witness ==
    \/ /\ res.op = "exists" /\ UnknownKeys # {} /\ res.out.error = "InvalidRequestError"
       /\ \E r \in txn : r.qty = 1
    \/ /\ IsGet /\ UnknownKeys # {} /\ Returned /\ Len(res.out.data) = 1
       /\ Cardinality(txn) = 2

\* ------------------------------------------------------------------ claims about the writes

IsUpdate == res.op = "update"
UpdateId == Val(res.model.id)
StoredBefore(id) == id \in Ids_of(res.before.txn)

\* The call has staged, flushed and committed nothing, and has left the session and
\* storage as they were.
WroteNothing ==
    /\ \A i \in DOMAIN res.out.calls : res.out.calls[i] \notin {"add", "flush", "commit", "delete"}
    /\ txn = res.before.txn
    /\ committed = res.before.committed
    /\ pendingDel = res.before.pendingDel

\* C8: update, sync and async, of a record whose id is set and is not in storage raises
\* ValueError 'not found' and writes nothing.
C8_UpdateMissingNotFound ==
    (IsUpdate /\ res.model.id # None /\ ~StoredBefore(UpdateId)) =>
        /\ res.out.error = "ValueError"
        /\ res.out.detail = "not found"
        /\ WroteNothing

\* C9: update, sync and async, of a record whose id is set and is in storage stages the
\* record, commits and refreshes it (only flushes it when the commit is deferred) and
\* returns it; update of a record with id = none raises a validation error.
C9_UpdateExistingSucceeds ==
    IsUpdate =>
        IF res.model.id = None
        THEN res.out.error = "ValueError" /\ WroteNothing
        ELSE StoredBefore(UpdateId) =>
                /\ res.out.error = "none"
                /\ WithId(res.out.ret, res.out.ret.id) = WithId(res.model, UpdateId)
                /\ res.out.ret \in txn
                /\ IF res.defer_commit
                   THEN /\ res.out.calls = <<"execute", "add", "flush">>
                        /\ committed = res.before.committed
                   ELSE /\ res.out.calls = <<"execute", "add", "commit", "refresh">>
                        /\ res.out.ret \in committed

\* C10: from the same storage and session state and the same arguments, each
\* synchronous operation and its asynchronous counterpart have the same outcomes: the
\* same result or error, the same session calls, the same storage and session after.
C10_SyncAsyncIdentical ==
    /\ \A qf \in Filters \ {None} :
          exists([kind |-> "dict", val |-> Val(qf)]) = exists_async([kind |-> "dict", val |-> Val(qf)])
    /\ \A id \in Ids : get_by_id(id) = get_by_id_async(id)
    /\ \A ids \in SUBSET Ids : get_models_by_ids(ids) = get_models_by_ids_async(ids)
    /\ \A qf \in Filters, skip \in Skips, limit \in Limits :
          get(qf, skip, limit) = get_async(qf, skip, limit)
    /\ \A qf \in Filters, skip \in Skips, limit \in Limits, order_by \in OrderBys, s \in Searches :
          get_paginated(qf, skip, limit, order_by, s.fields, s.text)
             = get_paginated_async(qf, skip, limit, order_by, s.fields, s.text)
    /\ \A model \in WriteModels, defer_commit \in BOOLEAN :
          create(model, defer_commit) = create_async(model, defer_commit)
    /\ \A model \in WriteModels, defer_commit \in BOOLEAN :
          update(model, defer_commit) = update_async(model, defer_commit)
    /\ \A id \in Ids, defer_commit \in BOOLEAN :
          delete(id, defer_commit) = delete_async(id, defer_commit)

\* ------------------------------------------------------------------ claims about delete and create

IsDelete == res.op = "delete"
DeleteId == Val(res.id)
IsCreate == res.op = "create"
Called(call) == \E i \in DOMAIN res.out.calls : res.out.calls[i] = call

\* C11 as stated: delete(id), sync and async, never raises; for an id that is not in
\* storage it leaves the stored records as they are; for an id that is in storage it
\* removes that record and no other, and a get_by_id(id) that follows returns None.
C11_Original ==
    IsDelete =>
        /\ res.out.error = "none"
        /\ IF StoredBefore(DeleteId)
           THEN /\ txn = {r \in res.before.txn : r.id # DeleteId}
                /\ get_by_id(DeleteId).ret = None
           ELSE txn = res.before.txn /\ committed = res.before.committed

\* C11 amended: delete(id), sync and async, never raises and returns None. With
\* defer_commit false, when it returns the session and storage hold the records the
\* session held before, less the record of that id and less the records marked for
\* deletion earlier, nothing is left staged, and get_by_id(id) returns None; so for an
\* id that is not in storage, with nothing staged before, nothing changes. With
\* defer_commit true nothing is removed yet: the record of that id, if there is one, is
\* only marked for deletion, and get_by_id(id) still returns it.
C11_DeleteRemoves ==
    IsDelete =>
        /\ res.out.error = "none"
        /\ res.out.ret = None
        /\ IF res.defer_commit
           THEN /\ txn = res.before.txn
                /\ committed = res.before.committed
                /\ pendingDel = res.before.pendingDel
                                   \cup (IF StoredBefore(DeleteId) THEN {DeleteId} ELSE {})
                /\ StoredBefore(DeleteId) => get_by_id(DeleteId).ret # None
           ELSE /\ txn = {r \in res.before.txn :
                             r.id # DeleteId /\ r.id \notin res.before.pendingDel}
                /\ committed = txn
                /\ pendingDel = {}
                /\ get_by_id(DeleteId).ret = None
                /\ (/\ ~StoredBefore(DeleteId)
                    /\ res.before.pendingDel = {}
                    /\ res.before.txn = res.before.committed)
                      => txn = res.before.txn /\ committed = res.before.committed

C11_Witness ==
    /\ IsDelete /\ ~res.defer_commit /\ StoredBefore(DeleteId)
    /\ Cardinality(res.before.committed) = 2
    /\ Cardinality(committed) = 1 /\ txn = committed
    /\ get_by_id(DeleteId).ret = None

\* C12: create, sync and async, with defer_commit false commits the write and refreshes
\* the record before it returns; with defer_commit true it only stages the write (add
\* and flush): the session holds the record and committed storage does not, and
\* committed storage changes only in a call that commits.
C12_CreateCommitsOrStages ==
    /\ IsCreate =>
          /\ res.out.error = "none"
          /\ res.out.ret \in txn
          /\ IF res.defer_commit
             THEN /\ res.out.calls = <<"add", "flush">>
                  /\ committed = res.before.committed
                  /\ res.out.ret.id \notin Ids_of(committed)
             ELSE /\ res.out.calls = <<"add", "commit", "refresh">>
                  /\ res.out.ret \in committed
                  /\ committed = txn
    /\ res # Idle => (committed # res.before.committed => Called("commit"))

C12_Witness ==
    /\ IsCreate /\ res.defer_commit /\ res.out.error = "none"
    /\ res.out.ret \in txn /\ res.out.ret \notin committed
    /\ committed # {}

\* ------------------------------------------------------------------ claims about the timestamps

\* C13: create followed by get_by_id with the returned id yields the created record,
\* the record given with its generated id and timestamps; at creation updated_on equals
\* created_on; and every stored record has updated_on >= created_on at every later point.
C13_CreateThenGetById ==
    /\ IsCreate =>
          /\ res.out.error = "none"
          /\ get_by_id(res.out.ret.id).ret = Some(res.out.ret)
          /\ res.out.ret.name = res.model.name /\ res.out.ret.qty = res.model.qty
          /\ res.model.id # None => res.out.ret.id = Val(res.model.id)
          /\ res.out.ret.updated_on = res.out.ret.created_on
    /\ \A r \in txn \cup committed : r.updated_on >= r.created_on

\* The part of C13 that holds: the record is found again as returned, and updated_on
\* is never before created_on.
TimestampsOrdered ==
    /\ IsCreate =>
          /\ res.out.error = "none"
          /\ get_by_id(res.out.ret.id).ret = Some(res.out.ret)
          /\ res.out.ret.created_on = res.before.now
    /\ \A r \in txn \cup committed : r.created_on <= r.updated_on /\ r.updated_on <= now

\* ------------------------------------------------------------------ claims about the search

\* The type of the column a search path ends in, for the paths that end in a column.
PathType(path) ==
    CASE path = <<"name">> -> "String"
      [] path = <<"qty">> -> "Integer"
      [] path = <<"items", ".", "title">> -> "Text"
      [] path = <<"items", ".", "id">> -> "Uuid"
      [] OTHER -> "unresolved"

SearchPaths == Val(res.search_fields)
NotText(i) == PathType(SearchPaths[i]) \notin {"String", "Text", "unresolved"}

C15_SearchOrThenAnd ==
    (IsGetPaginated /\ SearchActive /\ Returned /\ UnknownKeys = {}
        /\ res.skip = None /\ res.limit = None) =>
        {res.out.data[i] : i \in DOMAIN res.out.data} = MatchingRecords

\* ------------------------------------------------------------------ claims about the manager

ViaManager == res # Idle /\ "repository" \in DOMAIN res

\* The manager call has made one call on the repository: the operation of its own name
\* and mode, with its own arguments.
OneSameCall ==
    /\ Len(res.repository) = 1
    /\ res.repository[1].op = res.op
    /\ res.repository[1].mode = res.mode
    /\ res.repository[1].args = res.args

\* The outcomes the repository operation has when it is called directly.
RepositoryOutcomes(op, mode, args) ==
    CASE op = "get_by_id" /\ mode = "sync" -> {NoWrite(get_by_id(args[1]))}
      [] op = "get_by_id" /\ mode = "async" -> {NoWrite(get_by_id_async(args[1]))}
      [] op = "create" /\ mode = "sync" -> create(args[1], args[2])
      [] op = "create" /\ mode = "async" -> create_async(args[1], args[2])
      [] op = "update" /\ mode = "sync" -> update(args[1], args[2])
      [] op = "update" /\ mode = "async" -> update_async(args[1], args[2])
      [] op = "delete" /\ mode = "sync" -> delete(args[1], args[2])
      [] op = "delete" /\ mode = "async" -> delete_async(args[1], args[2])
      [] op = "get" /\ mode = "sync" -> {NoWrite(o) : o \in get(args[1], args[2], args[3])}
      [] op = "get" /\ mode = "async" -> {NoWrite(o) : o \in get_async(args[1], args[2], args[3])}
      [] op = "get_models_by_ids" /\ mode = "sync" ->
            {NoWrite(o) : o \in get_models_by_ids(args[1])}
      [] op = "get_models_by_ids" /\ mode = "async" ->
            {NoWrite(o) : o \in get_models_by_ids_async(args[1])}
      [] op = "get_paginated" /\ mode = "sync" ->
            {NoWrite(o) : o \in get_paginated(args[1], args[2], args[3], args[4], args[5], args[6])}
      [] op = "get_paginated" /\ mode = "async" ->
            {NoWrite(o) : o \in get_paginated_async(args[1], args[2], args[3], args[4],
                                                    args[5], args[6])}
      [] op = "exists" /\ mode = "sync" -> {NoWrite(exists([kind |-> "dict", val |-> Val(args[1])]))}
      [] op = "exists" /\ mode = "async" ->
            {NoWrite(exists_async([kind |-> "dict", val |-> Val(args[1])]))}

\* What the manager call has handed back, with the session and storage it has left.
OutcomeAfter ==
    res.out @@ [txn |-> txn, committed |-> committed, pendingDel |-> pendingDel, now |-> now]

\* C16 as stated: every repository operation, exists included, can be called through
\* the manager in both modes, and each manager call makes exactly one call of the
\* repository operation of the same name with the same arguments and has its outcome.
C16_Original ==
    [][ViaManager' => (OneSameCall' /\ OutcomeAfter' \in RepositoryOutcomes(res'.op, res'.mode, res'.args))]_vars

\* C16 amended: the manager re-exposes get_by_id, create, update, delete, get,
\* get_models_by_ids and get_paginated, each in both modes, by pure delegation: one call
\* of the repository operation of the same name and mode with the same arguments, whose
\* result or error it hands back unchanged; exists and exists_async are not re-exposed:
\* calling them on the manager fails with AttributeError and reaches no repository.
C16_ManagerDelegates ==
    [][ViaManager' =>
          IF res'.op # "exists"
          THEN /\ OneSameCall'
               /\ OutcomeAfter' \in RepositoryOutcomes(res'.op, res'.mode, res'.args)
          ELSE /\ res'.repository = <<>>
               /\ res'.out.error = "AttributeError"
               /\ UNCHANGED <<committed, txn, pendingDel, related, now, cache, timer, identity_cache, unit, threads>>]_vars

C16_Witness ==
    /\ ViaManager /\ res.op = "get" /\ res.mode = "sync"
    /\ res.args = <<None, Some(1), Some(DefaultLimit)>>
    /\ OneSameCall
    /\ Cardinality(txn) = 2 /\ Len(res.out.data) = 1

IsGetJwksKeys == res.op = "get_jwks_keys"
IsGetPublicKey == res.op = "get_public_key"
IsVerifyToken == res.op = "verify_token"
RaisedHttp(status_code) == res.out.error = "HTTPException" /\ res.out.status_code = status_code

\* The URL of the call had an entry stored less than Ttl ago when the call began.
StoredWithinTtl ==
    /\ res.jwks_url \in DOMAIN res.before.cache
    /\ timer < res.before.cache[res.jwks_url].expires

\* C17: a get_jwks_keys call for a URL whose key set was fetched less than 600 seconds ago
\* makes no upstream fetch and returns the mapping the earlier call returned; a call for
\* a URL with no such entry, never fetched or fetched 600 seconds ago or more, makes
\* exactly one fetch; a call that returns leaves its mapping stored for that URL, for 600
\* seconds from the fetch, and no entry is ever kept longer.
C17_JwksCachedWithinTtl ==
    /\ \A u \in DOMAIN cache : cache[u].expires <= timer + Ttl
    /\ IsGetJwksKeys =>
         /\ StoredWithinTtl =>
              /\ res.out.error = "none"
              /\ res.out.calls = <<>>
              /\ res.out.ret = res.before.cache[res.jwks_url].value
              /\ cache = res.before.cache
         /\ ~StoredWithinTtl => res.out.calls = <<"requests.get">>
         /\ res.out.error = "none" =>
              /\ res.jwks_url \in DOMAIN cache
              /\ cache[res.jwks_url].value = res.out.ret
              /\ res.out.calls # <<>> => cache[res.jwks_url].expires = timer + Ttl
         /\ res.out.error # "none" => cache = res.before.cache

\* A second call, one time step after the call that fetched the key set, fetches nothing.
C17_Witness ==
    /\ IsGetJwksKeys /\ timer = TimeStep /\ StoredWithinTtl
    /\ res.before.cache[res.jwks_url].expires = Ttl
    /\ res.out.calls = <<>> /\ res.out.error = "none"

\* The key set of the call's URL, which the call has obtained (from the cache or from
\* the endpoint) when an entry for the URL is there after it.
KeySetObtained == res.jwks_url \in DOMAIN cache /\ timer < cache[res.jwks_url].expires
KeyIdMissing ==
    /\ res.token.kind = "jwt" /\ KeySetObtained
    /\ (res.token.kid = None \/ Val(res.token.kid) \notin DOMAIN cache[res.jwks_url].value)

\* C18: get_public_key raises an error of status 403 when the header of the token cannot
\* be read, and also when the key id of the header is not in the key set.
C18_PublicKeyClientError ==
    (IsGetPublicKey /\ (res.token.kind # "jwt" \/ KeyIdMissing)) => RaisedHttp(403)

\* C19: verify_token of the empty token raises an error of status 403 with the message
\* "Access Token is missing", whatever the URL and the audience; it reads no header,
\* fetches no key set, decodes nothing and leaves the cache as it was.
C19_EmptyTokenRejected ==
    (IsVerifyToken /\ res.token = EmptyToken) =>
        /\ RaisedHttp(403)
        /\ res.out.detail = "Access Token is missing"
        /\ res.out.calls = <<>>
        /\ cache = res.before.cache

\* The empty token against the second URL and audience, with a key set already cached.
C19_Witness ==
    /\ IsVerifyToken /\ res.token = EmptyToken
    /\ res.jwks_url = "u2" /\ res.audience = "a2"
    /\ DOMAIN res.before.cache # {}
    /\ RaisedHttp(403) /\ res.out.calls = <<>>

\* Why a verify_token call on a token fails, told from its arguments, the cache it
\* starts from and the answer of the JWKS endpoint.
Cause(c, token, jwks_url, audience, response) ==
    IF Falsy(token) THEN "missing token"
    ELSE IF token.kind # "jwt" THEN "bad header"
    ELSE IF ~Live(c, jwks_url) /\ response.kind # "ok" THEN "key set unavailable"
    ELSE LET keys == IF Live(c, jwks_url) THEN c[jwks_url].value ELSE KeysOf(response)
         IN  IF token.kid = None \/ Val(token.kid) \notin DOMAIN keys THEN "key not found"
             ELSE IF token.state = "bad_signature" THEN "generic decode failure"
             ELSE IF token.state = "expired" THEN "expired"
             ELSE IF token.aud # audience THEN "claims mismatch"
             ELSE "none"

ListedCauses ==
    {"missing token", "bad header", "key not found", "claims mismatch", "generic decode failure"}

CauseOfCall == Cause(res.before.cache, res.token, res.jwks_url, res.audience, res.response)

\* C20: a verify_token call that fails for a missing token, a bad header, a key that is
\* not found, a claims mismatch or a generic decode failure raises an error of status
\* 403, whose message no call failing for another of these causes carries; the message
\* is "Claims verification failed." for a claims mismatch and "Token is invalid." for a
\* generic decode failure.
C20_DistinctMessagePerCause ==
    (IsVerifyToken /\ CauseOfCall \in ListedCauses) =>
        /\ RaisedHttp(403)
        /\ CauseOfCall = "claims mismatch" => res.out.detail = "Claims verification failed."
        /\ CauseOfCall = "generic decode failure" => res.out.detail = "Token is invalid."
        /\ \A token \in Tokens, audience \in Audiences, response \in Responses :
             LET other == Cause(res.before.cache, token, res.jwks_url, audience, response)
             IN  (other \in ListedCauses /\ other # CauseOfCall) =>
                    verify_token(res.before.cache, token, res.jwks_url, audience, response).detail
                        # res.out.detail

\* The call has asked the JWKS endpoint and has got no key set from it.
RetrievalFailed == res.response.kind \in {"network_error", "bad_status", "malformed"}

\* C21: a get_jwks_keys call whose request fails on the network, is answered with a
\* status that is no success, or is answered with a body that is no key set, raises an
\* error of status 500, "Failed to fetch JWKS keys."; get_jwks_keys raises nothing
\* else, so never an error of status 403.
C21_JwksFailureIsServiceError ==
    IsGetJwksKeys =>
        /\ RetrievalFailed =>
             /\ RaisedHttp(500)
             /\ res.out.detail = "Failed to fetch JWKS keys."
        /\ res.out.error # "none" => (RetrievalFailed /\ RaisedHttp(500) /\ ~RaisedHttp(403))

\* A body that is no key set, for a URL whose cached key set has expired.
C21_Witness ==
    /\ IsGetJwksKeys /\ res.response.kind = "malformed"
    /\ res.jwks_url \in DOMAIN res.before.cache
    /\ RaisedHttp(500)

IsGetClaim == res.op = "get_claim_from_payload"

\* The names of the path, and the search for them in the payload, one dict inside the
\* other: the value found, or nothing.
PathNames == {<<"uid">>, <<"email">>, <<"claims">>, <<"claims", "email">>,
              <<"claims", "uid">>, <<"uid", "email">>}
NamesOfPath == CHOOSE n \in PathNames :
    /\ Len(res.claim_json_path) = 2 * Len(n) - 1
    /\ \A i \in DOMAIN n : res.claim_json_path[2 * i - 1] = n[i]
Under(datum, name) ==
    IF datum # None /\ Val(datum).kind = "dict" /\ name \in DOMAIN Val(datum).items
    THEN Some(Val(datum).items[name])
    ELSE None
ValueAtPath ==
    IF Len(NamesOfPath) = 1
    THEN Under(Some(res.payload), NamesOfPath[1])
    ELSE Under(Under(Some(res.payload), NamesOfPath[1]), NamesOfPath[2])

\* C22: get_claim_from_payload returns the value at the path when the payload has one
\* there, and returns none, raising nothing, when the path matches nothing in the
\* payload, as for the empty payload.
C22_ClaimOrNone ==
    IsGetClaim =>
        /\ res.out.error = "none"
        /\ ValueAtPath # None => res.out.ret = Val(ValueAtPath)
        /\ ValueAtPath = None => res.out.ret = None

UnitClosed == unit.stage = "closed"
UnitCalled(call) == \E i \in DOMAIN unit.calls : unit.calls[i] = call
UnitCalledBefore(a, b) ==
    \E i, j \in DOMAIN unit.calls : i < j /\ unit.calls[i] = a /\ unit.calls[j] = b

\* C23: db_dependency and async_db_dependency close the session however the unit of
\* work ends; when it ends without an error they commit and then close and raise
\* nothing; when it raises InternalError they roll back, then close, and raise it
\* again, without a commit; for any other exception they call neither commit nor
\* rollback and let it through.
C23_WrapperClosesOnEveryPath ==
    UnitClosed =>
        /\ UnitCalled("close")
        /\ unit.calls[Len(unit.calls)] = "close"
        /\ unit.raised = unit.thrown
        /\ unit.thrown = "none" =>
             /\ UnitCalledBefore("commit", "close") /\ ~UnitCalled("rollback")
             /\ committed = FlushedDeletes(unit.before.txn, unit.before.pendingDel)
        /\ unit.thrown = "InternalError" =>
             /\ UnitCalledBefore("rollback", "close") /\ ~UnitCalled("commit")
             /\ committed = unit.before.committed
        /\ unit.thrown = "Exception" =>
             /\ ~UnitCalled("commit") /\ ~UnitCalled("rollback")
             /\ committed = unit.before.committed

\* An async unit of work that has staged a record and then raised another exception.
C23_Witness ==
    /\ UnitClosed /\ unit.mode = "async" /\ unit.thrown = "Exception"
    /\ unit.before.txn # unit.before.committed
    /\ unit.calls = <<"close", "close">>

\* The records the session has staged and not committed.
Staged == txn \ committed

\* The step is the successful end of a unit of work.
ExitsWithoutError == unit'.stage = "closed" /\ unit.stage = "open" /\ unit'.thrown = "none"

\* The step is a repository call made with defer_commit false.
CallsWithoutDefer == res = Idle /\ res' # Idle /\ ~res'.defer_commit

\* C30: within a unit of work of db_dependency / async_db_dependency, what was staged
\* with defer_commit true and not committed since is not in committed storage once the
\* unit of work has ended with an exception, InternalError or another: committed
\* storage is then what it was before the end, and the session holds nothing more.
\* Committed storage changes only with the wrapper's commit at an end without error
\* or with a repository call made with defer_commit false.
C30_DeferredWritesNotDurableOnError ==
    [][/\ (unit'.stage = "closed" /\ unit.stage = "open" /\ unit'.thrown # "none") =>
             /\ committed' = committed
             /\ txn' = committed
             /\ \A r \in Staged : r \notin committed'
       /\ committed' # committed => (ExitsWithoutError \/ CallsWithoutDefer)]_vars

\* A unit of work that staged a record with defer_commit true has ended with
\* InternalError, and the record is in no storage.
C30_Witness ==
    /\ UnitClosed /\ unit.thrown = "InternalError"
    /\ \E r \in unit.before.txn : r \notin unit.before.committed /\ r \notin committed /\ r \notin txn

\* The statement the get_paginated call has built from its arguments.
BuiltStmt ==
    _build_base_paginated_get_stmt(res.query_filter, res.order_by,
                                   res.search_fields, res.search_text)

\* C24: in the statement built for one get_paginated call no relationship is joined
\* more than once, also when a search field and an order field go through the same
\* relationship.
C24_EachJoinAtMostOnce ==
    (IsGetPaginated /\ BuiltStmt.error = "none") => ~HasDuplicates(Val(BuiltStmt.stmt).joins)

IsResolve == res.op = "_get_column_and_joins"
PathLen == (Len(res.field_name) + 1) \div 2
Segment(i) == res.field_name[2 * i - 1]

\* The type the walk is on when it comes to segment i: the target of the last
\* relationship before it, or the type the walk began on.
RECURSIVE TypeAt(_)
TypeAt(i) ==
    IF i = 1 THEN res.model
    ELSE LET t == TypeAt(i - 1)
             n == Segment(i - 1)
         IN  IF n \in DOMAIN Schema[t] /\ Schema[t][n].kind = "relationship"
             THEN Schema[t][n].target
             ELSE t

SegmentExists(i) == Segment(i) \in DOMAIN Schema[TypeAt(i)]
SegmentIsRelationship(i) == SegmentExists(i) /\ Schema[TypeAt(i)][Segment(i)].kind = "relationship"
SegmentIsColumn(i) == SegmentExists(i) /\ Schema[TypeAt(i)][Segment(i)].kind = "column"

\* C25: _get_column_and_joins raises AttributeError when a segment of the path is no
\* attribute of the type the walk is on, and when the last segment is a relationship;
\* in every other case it returns the column the last segment names, with one join
\* for each relationship segment, and no segment of the path follows a column segment.
C25_PathResolution ==
    IsResolve =>
        IF (\E i \in 1..PathLen : ~SegmentExists(i)) \/ SegmentIsRelationship(PathLen)
        THEN res.out.error = "AttributeError"
        ELSE /\ res.out.error = "none"
             /\ Val(res.out.column).name = Segment(PathLen)
             /\ Val(res.out.column).model = TypeAt(PathLen)
             /\ Len(res.out.joins) = Cardinality({i \in 1..PathLen : SegmentIsRelationship(i)})
             /\ \A i \in 1..(PathLen - 1) : ~SegmentIsColumn(i)

CallCount(call) == Cardinality({i \in DOMAIN res.out.calls : res.out.calls[i] = call})

\* C26: verify_token on a token whose signature has expired ends with an error of
\* status 403: it makes at most one nested verify_token call, on what refresh_token
\* gave, and returns no claim set.
C26_ExpiredTokenRejected ==
    (IsVerifyToken /\ res.token.kind = "jwt" /\ res.token.state = "expired") =>
        /\ RaisedHttp(403)
        /\ CallCount("verify_token") <= 1
        /\ CallCount("refresh_token") = CallCount("verify_token")
        /\ "ret" \notin DOMAIN res.out

\* An expired token whose key is found and whose audience is the expected one: decoded
\* once, refreshed once, verified again once.
C26_Witness ==
    /\ IsVerifyToken /\ res.token.kind = "jwt" /\ res.token.state = "expired"
    /\ res.token.aud = res.audience
    /\ CallCount("jwt.decode") = 1 /\ CallCount("refresh_token") = 1
    /\ CallCount("verify_token") = 1
    /\ RaisedHttp(403)

\* C28: when delete(id, defer_commit=false), sync or async, has returned, the session
\* holds nothing that is not committed, whether a record of that id was there or not:
\* the call commits also when it found no record, and what was staged before it with
\* defer_commit true is durable from then on.
C28_DeleteAlwaysCommits ==
    (IsDelete /\ ~res.defer_commit) =>
        /\ res.out.error = "none"
        /\ Called("commit")
        /\ pendingDel = {}
        /\ txn = committed
        /\ \A r \in res.before.txn :
              (r.id # DeleteId /\ r.id \notin res.before.pendingDel) => r \in committed

\* A delete of an id that is not there makes a record durable that was only staged.
C28_Witness ==
    /\ IsDelete /\ ~res.defer_commit /\ res.mode = "async"
    /\ ~StoredBefore(DeleteId)
    /\ \E r \in res.before.txn : r \notin res.before.committed /\ r \in committed

IsGetAccessToken == res.op = "get_access_token"

\* C29: a call of get_jwks_keys or get_access_token that raises leaves its cache as it
\* was; get_access_token raises what the credential raised, as it is; and a call with
\* the same argument that follows, at once or later, calls upstream again.
C29_FailureNotCached ==
    /\ (IsGetJwksKeys /\ res.out.error # "none") =>
          /\ cache = res.before.cache
          /\ \A response \in Responses :
                get_jwks_keys(cache, res.jwks_url, response).calls = <<"requests.get">>
    /\ (IsGetAccessToken /\ res.response.kind = "raise") =>
          /\ res.out.error = res.response.exception
    /\ (IsGetAccessToken /\ res.out.error # "none") =>
          /\ res.response.kind = "raise"
          /\ identity_cache = res.before.cache
          /\ \A response \in CredentialResponses :
                get_access_token(identity_cache, res.scope, response).calls
                    = <<"credential.get_token">>

\* The credential raises for one scope while the token of the other scope is cached.
C29_Witness ==
    /\ IsGetAccessToken /\ res.out.error = "CredentialUnavailableError"
    /\ res.scope \notin DOMAIN identity_cache
    /\ \E scope \in DOMAIN identity_cache : scope # res.scope /\ timer < identity_cache[scope].expires

ThreadDone(t) == threads[t].pc = "done"

\* C27: the cache of JWKS keys (and, used the same way, the cache of identity tokens)
\* is safe when callers look a key up at the same time: every caller gets a key set, or
\* the error of its own failed request, never an error out of the cache; and no entry
\* is kept, and so none is served, beyond 600 seconds after it was stored.
C27_CacheSafeUnderConcurrency ==
    /\ \A t \in Threads :
          ThreadDone(t) =>
             \/ threads[t].out.error = "none" /\ DOMAIN threads[t].out.ret \subseteq Kids
             \/ threads[t].out.error = "HTTPException"
    /\ \A u \in DOMAIN cache : cache[u].expires <= timer + Ttl

====
